---------------------------- MODULE Spec2Model ----------------------------
(***************************************************************************)
(* A model of the fuzz-test orchestration core of cifuzz: the run command  *)
(* (executeRunner, countCorpusEntries, runFuzzTest), the sanitizer option  *)
(* merge, the minijail bindings, the report channel of the runner tests    *)
(* and the CMake and Maven build adapters.                                 *)
(*                                                                         *)
(* Every subsystem has its own variables and its own specification; a      *)
(* specification leaves the variables of the other subsystems at their     *)
(* idle values.  Strings the code takes apart (option lists, bindings,     *)
(* tool output) are sequences of one-character strings.                    *)
(***************************************************************************)
EXTENDS Integers, Sequences, FiniteSets, TLC

VARIABLES
    \* executeRunner (internal/cmd/run/run.go)
    sigs,            \* the buffered channel handed to signal.Notify
    delivered,       \* number of termination signals the OS delivered so far
    listenerPc,      \* the signal-listener goroutine: "select", "cleanup", "done"
    runnerPc,        \* the runner goroutine: "run", "done"
    mainPc,          \* executeRunner itself: "wait", "returned"
    signalErr,       \* the variable signalErr: NilErr or a SignalError
    ctxDone,         \* routinesCtx is cancelled
    groupErr,        \* the errgroup's first non-nil error
    cleanupCalls,    \* number of calls of runner.Cleanup
    runResult,       \* what runner.Run returned ("running" before)
    execResult,      \* what executeRunner returned ("pending" before)
    sigBeforeRunEnd, \* history: first signal delivered before Run returned
    \* SetSanitizerOptions (pkg/runner)
    sanPc,           \* "input", "done"
    sanExisting,     \* existingOptionsStr
    sanDefaults,     \* defaults, as <<key, value>> pairs in map iteration order
    sanOverrides,    \* overrides, as <<key, value>> pairs in map iteration order
    sanResult,       \* the returned option string
    \* Binding (pkg/minijail)
    bindPc,          \* "input", "string", "parsed"
    bindInput,       \* the Binding as the caller built it
    binding,         \* the Binding object (String() fills in its Target)
    bindStr,         \* the result of binding.String()
    bindParsed,      \* the Binding returned by BindingFromString
    bindErr,         \* BindingFromString returned an error
    \* countCorpusEntries (internal/cmd/run/run.go)
    corpusPc,        \* "loop", "returned"
    corpusFs,        \* the file system: directory name -> Missing, Unreadable or a tree
    corpusDirs,      \* the argument seedCorpusDirs
    corpusIdx,       \* index of the next element of the range loop
    numSeeds,        \* the variable numSeeds
    corpusResult,    \* the returned pair [count, err]
    \* runCmd.runFuzzTest (internal/cmd/run/run.go)
    rfPc,            \* "mkdir", "seeds", "resolve", "bindings", "opts", "execute",
                     \* "returned"
    rfOpts,          \* c.opts: BuildSystem, SeedCorpusDirs, UseSandbox
    rfBuildResult,   \* the argument buildResult
    seedCorpusDirs,  \* the local variable seedCorpusDirs
    readOnlyBindings,\* the local variable readOnlyBindings
    installBase,     \* the local variable installBase (<<>> before it is set)
    runnerOpts,      \* the libfuzzer.RunnerOptions handed to the runner
    rfRunner,        \* the runner constructed: "none", "libfuzzer", "jazzer"
    rfErr,           \* the error runFuzzTest returned ("nil" when none)
    \* ChannelPassthrough and RunnerTest.Run (runner_testutils.go)
    chanPc,          \* "running", "closed", "collected"
    ch,              \* cp.ch, the buffered report channel
    produced,        \* number of reports the runner passed to Handle
    producedFindings,\* history: the finding reports passed to Handle
    reports,         \* the slice RunnerTest.Run collects
    \* cmake.Builder.BuildDir and Configure (internal/build/cmake)
    cfgPc,           \* "new", "configure"
    goos,            \* runtime.GOOS
    builder,         \* the current Builder: ProjectDir, Engine, Sanitizers, Verbose
    cmakeRuns,       \* the cmake runs made: working directory and cache arguments
    configures,      \* number of Configure calls so far
    \* cmake.Builder.Build and maven.Builder.Build
    buildPc,         \* the step of Build that runs next; "done" after its return
    adapter,         \* "cmake" or "maven"
    bld,             \* the Builder's options
    fuzzTests,       \* the fuzz tests to build; for Maven the target class
    testIdx,         \* position of the CMake loop in fuzzTests
    buildDir,        \* local buildDir
    executable,      \* local executable
    seedCorpus,      \* local seedCorpus
    installOut,      \* stdout of the last "cmake --install"
    depsRet,         \* what the last getRuntimeDeps call found and returned
    warned,          \* getRuntimeDeps logged a warning
    mvnBase,         \* the directory Maven bases its paths on
    deps,            \* local deps of maven's Build
    results,         \* the results Build has assembled
    buildErr,        \* the error Build returns
    \* minijail.NewMinijail and Cleanup
    mjPc,            \* the step of NewMinijail that runs next; "live" after it
    mjOpts,          \* opts: Args[0], Bindings, OutputDir
    hostTmp,         \* the names of the entries of /tmp on the host
    chrootDir,       \* local chrootDir: the name of the directory in /tmp
    chrootFs,        \* the directories and files created in the chroot
    mjPath,          \* local path: the executable
    mjBindings,      \* local bindings
    minijailConfigLines, \* the package variable minijailConfigLines
    configFile,      \* the lines of the config file written last
    mjErr,           \* the error NewMinijail returned last
    jails,           \* number of NewMinijail calls so far
    \* runner.SetCommonASANOptions and SetCommonUBSANOptions
    senvPc,          \* "asan", "ubsan", "done"
    isTerminal,      \* stderr of the process is a terminal
    userEnv,         \* ASAN_OPTIONS and UBSAN_OPTIONS as the user set them
    senvEnv,         \* env: the two variables in the environment composed
    bundlePc,        \* position of the bundle command
    envFlags,        \* the values of --env, in flag order
    callerEnv,       \* the environment of the caller
    buildResults,    \* RuntimeDeps of each build result
    fuzzers,         \* the fuzzers of the manifest
    fileMap,         \* artifact.FileMap: pairs of archive path and source
    ioAdapter,       \* the adapter whose commands run
    ioPc,            \* index of the next command, 0 after a failure
    toolRuns,        \* what each command run so far wrote and how it exited
    bStdout,         \* b.Stdout: the bytes written to it
    bStderr,         \* b.Stderr: the bytes written to it
    captured,        \* the buffer or cmd.Output() result of the last command
    pwPc,            \* position of the process wrapper
    pwLayout,        \* history: the parts the command line was made of
    pwArgv,          \* argv of the process wrapper
    pwCwd,           \* working directory of the process
    pwExec,          \* the program executed and its argument vector
    pwExit,          \* exit status of the process wrapper
    cmdPc,           \* the step run is about to execute
    cmdOpts,         \* c.opts and the CIFUZZ_PRERELEASE variable
    cmdSteps,        \* history: the steps executed with their outcomes
    cmdErr,          \* the error run returns
    benvPc,          \* "adding" the bindings, then "parsed" by NewMinijail
    benvEnv,         \* the environment the adapter composes
    benvCalls,       \* history: the bindings passed to AddMinijailBindingToEnv
    benvParsed,      \* the additional bindings NewMinijail read back
    valPc,           \* the check validate is about to make
    valOpts,         \* the run options validate is called on
    valSteps,        \* history: the checks validate has made
    valErr,          \* the error validate returns
    valRan           \* RunE has run the build and the runner

execVars == <<sigs, delivered, listenerPc, runnerPc, mainPc, signalErr, ctxDone,
              groupErr, cleanupCalls, runResult, execResult, sigBeforeRunEnd>>

sanVars == <<sanPc, sanExisting, sanDefaults, sanOverrides, sanResult>>

bindVars == <<bindPc, bindInput, binding, bindStr, bindParsed, bindErr>>

corpusVars == <<corpusPc, corpusFs, corpusDirs, corpusIdx, numSeeds, corpusResult>>

rfVars == <<rfPc, rfOpts, rfBuildResult, seedCorpusDirs, readOnlyBindings,
            installBase, runnerOpts, rfRunner, rfErr>>

chanVars == <<chanPc, ch, produced, producedFindings, reports>>

cfgVars == <<cfgPc, goos, builder, cmakeRuns, configures>>

buildVars ==
    <<buildPc, adapter, bld, fuzzTests, testIdx, buildDir, executable,
      seedCorpus, installOut, depsRet, warned, mvnBase, deps, results,
      buildErr>>

mjVars ==
    <<mjPc, mjOpts, hostTmp, chrootDir, chrootFs, mjPath, mjBindings,
      minijailConfigLines, configFile, mjErr, jails>>

senvVars == <<senvPc, isTerminal, userEnv, senvEnv>>

bundleVars ==
    <<bundlePc, envFlags, callerEnv, buildResults, fuzzers, fileMap>>

ioVars == <<ioAdapter, ioPc, toolRuns, bStdout, bStderr, captured>>

pwVars == <<pwPc, pwLayout, pwArgv, pwCwd, pwExec, pwExit>>

cmdVars == <<cmdPc, cmdOpts, cmdSteps, cmdErr>>

benvVars == <<benvPc, benvEnv, benvCalls, benvParsed>>

valVars == <<valPc, valOpts, valSteps, valErr, valRan>>

vars == <<execVars, sanVars, bindVars, corpusVars, rfVars, chanVars, cfgVars,
          buildVars, mjVars, senvVars, bundleVars, ioVars, pwVars, cmdVars,
          benvVars, valVars>>

\* What the actions of one subsystem leave alone: the other subsystems.
ExecFrame == UNCHANGED <<sanVars, bindVars, corpusVars, rfVars, chanVars,
        cfgVars, buildVars, mjVars, senvVars, bundleVars, ioVars, pwVars,
        cmdVars, benvVars, valVars>>

SanFrame == UNCHANGED <<execVars, bindVars, corpusVars, rfVars, chanVars,
        cfgVars, buildVars, mjVars, senvVars, bundleVars, ioVars, pwVars,
        cmdVars, benvVars, valVars>>

BindFrame == UNCHANGED <<execVars, sanVars, corpusVars, rfVars, chanVars,
        cfgVars, buildVars, mjVars, senvVars, bundleVars, ioVars, pwVars,
        cmdVars, benvVars, valVars>>

CorpusFrame == UNCHANGED <<execVars, sanVars, bindVars, rfVars, chanVars,
        cfgVars, buildVars, mjVars, senvVars, bundleVars, ioVars, pwVars,
        cmdVars, benvVars, valVars>>

RfFrame == UNCHANGED <<execVars, sanVars, bindVars, corpusVars, chanVars,
        cfgVars, buildVars, mjVars, senvVars, bundleVars, ioVars, pwVars,
        cmdVars, benvVars, valVars>>

ChanFrame == UNCHANGED <<execVars, sanVars, bindVars, corpusVars, rfVars,
        cfgVars, buildVars, mjVars, senvVars, bundleVars, ioVars, pwVars,
        cmdVars, benvVars, valVars>>

CfgFrame == UNCHANGED <<execVars, sanVars, bindVars, corpusVars, rfVars,
        chanVars, buildVars, mjVars, senvVars, bundleVars, ioVars, pwVars,
        cmdVars, benvVars, valVars>>

BuildFrame == UNCHANGED <<execVars, sanVars, bindVars, corpusVars, rfVars,
        chanVars, cfgVars, mjVars, senvVars, bundleVars, ioVars, pwVars,
        cmdVars, benvVars, valVars>>

MjFrame == UNCHANGED <<execVars, sanVars, bindVars, corpusVars, rfVars,
        chanVars, cfgVars, buildVars, senvVars, bundleVars, ioVars, pwVars,
        cmdVars, benvVars, valVars>>

SenvFrame == UNCHANGED <<execVars, sanVars, bindVars, corpusVars, rfVars,
        chanVars, cfgVars, buildVars, mjVars, bundleVars, ioVars, pwVars,
        cmdVars, benvVars, valVars>>

BundleFrame == UNCHANGED <<execVars, sanVars, bindVars, corpusVars, rfVars,
        chanVars, cfgVars, buildVars, mjVars, senvVars, ioVars, pwVars,
        cmdVars, benvVars, valVars>>

IoFrame == UNCHANGED <<execVars, sanVars, bindVars, corpusVars, rfVars,
        chanVars, cfgVars, buildVars, mjVars, senvVars, bundleVars, pwVars,
        cmdVars, benvVars, valVars>>

PwFrame == UNCHANGED <<execVars, sanVars, bindVars, corpusVars, rfVars,
        chanVars, cfgVars, buildVars, mjVars, senvVars, bundleVars, ioVars,
        cmdVars, benvVars, valVars>>

CmdFrame == UNCHANGED <<execVars, sanVars, bindVars, corpusVars, rfVars,
        chanVars, cfgVars, buildVars, mjVars, senvVars, bundleVars, ioVars,
        pwVars, benvVars, valVars>>

BenvFrame == UNCHANGED <<execVars, sanVars, bindVars, corpusVars, rfVars,
        chanVars, cfgVars, buildVars, mjVars, senvVars, bundleVars, ioVars,
        pwVars, cmdVars, valVars>>

ValFrame == UNCHANGED <<execVars, sanVars, bindVars, corpusVars, rfVars,
        chanVars, cfgVars, buildVars, mjVars, senvVars, bundleVars, ioVars,
        pwVars, cmdVars, benvVars>>

-----------------------------------------------------------------------------
(* Helpers on sequences *)

Last(s) == s[Len(s)]

Front(s) == SubSeq(s, 1, Len(s) - 1)

Range(s) == {s[i] : i \in 1..Len(s)}

\* All sequences over S of length at most n.
SeqsUpTo(S, n) == UNION {[1..k -> S] : k \in 0..n}

\* strings.Index(s, c) for a one-character c, 1-based; 0 when c is absent.
Index(s, c) ==
    IF \E i \in 1..Len(s) : s[i] = c
    THEN CHOOSE i \in 1..Len(s) : s[i] = c /\ \A j \in 1..(i - 1) : s[j] # c
    ELSE 0

\* strings.HasPrefix(s, prefix)
HasPrefix(s, prefix) ==
    Len(s) >= Len(prefix) /\ SubSeq(s, 1, Len(prefix)) = prefix

\* strings.Split(s, sep) for a one-character sep.
RECURSIVE Split(_, _)
Split(s, sep) ==
    LET i == Index(s, sep) IN
    IF i = 0 THEN <<s>>
    ELSE <<SubSeq(s, 1, i - 1)>> \o Split(SubSeq(s, i + 1, Len(s)), sep)

\* strings.Join(list, sep)
RECURSIVE Join(_, _)
Join(list, sep) ==
    IF list = <<>> THEN <<>>
    ELSE IF Len(list) = 1 THEN list[1]
    ELSE list[1] \o sep \o Join(Tail(list), sep)

\* The non-empty elements of list, in order.
RECURSIVE SelectNonEmpty(_)
SelectNonEmpty(list) ==
    IF list = <<>> THEN <<>>
    ELSE IF Head(list) = <<>> THEN SelectNonEmpty(Tail(list))
    ELSE <<Head(list)>> \o SelectNonEmpty(Tail(list))

-----------------------------------------------------------------------------
(***************************************************************************)
(* executeRunner                                                           *)
(***************************************************************************)

\* Number of termination signals the environment delivers during one call.
MaxSignals == 2

\* make(chan os.Signal, 1)
SigChanCap == 1

\* signal.Notify(sigs, os.Interrupt, syscall.SIGTERM, syscall.SIGINT, syscall.SIGQUIT)
Signals == {"SIGINT", "SIGTERM", "SIGQUIT"}

NilErr == [kind |-> "nil", sig |-> "none", silent |-> FALSE]

\* cmdutils.NewSignalError(s)
NewSignalError(s) == [kind |-> "SignalError", sig |-> s, silent |-> FALSE]

\* cmdutils.WrapSilentError(err)
WrapSilentError(err) == [err EXCEPT !.silent = TRUE]

\* The errors runner.Run can return: nil, an unexpected exit code wrapped as
\* an ExecError, another error of the runner, or the context's error.
RunErrors ==
    { NilErr,
      [kind |-> "ExecError", sig |-> "none", silent |-> FALSE],
      [kind |-> "ExitError", sig |-> "none", silent |-> FALSE],
      [kind |-> "ContextCanceled", sig |-> "none", silent |-> FALSE] }

\* errgroup.Group.Go: the first non-nil error is kept.
GroupErrAfter(err) == IF groupErr = NilErr THEN err ELSE groupErr

\* errors.As(err, &execErr)
IsExecError(err) == err.kind = "ExecError"

executeRunnerResultOfGroup(sigErr, err) ==
    IF IsExecError(err) THEN WrapSilentError(err)
    ELSE err

\* The tail of executeRunner, after routines.Wait() returned err.
executeRunnerResult(sigErr, err) ==
    IF sigErr # NilErr THEN WrapSilentError(sigErr)
    ELSE IF IsExecError(err) THEN WrapSilentError(err)
    ELSE err

ExecIdle ==
    /\ sigs = <<>>
    /\ delivered = 0
    /\ listenerPc = "idle"
    /\ runnerPc = "idle"
    /\ mainPc = "idle"
    /\ signalErr = NilErr
    /\ ctxDone = FALSE
    /\ groupErr = NilErr
    /\ cleanupCalls = 0
    /\ runResult = "running"
    /\ execResult = "pending"
    /\ sigBeforeRunEnd = "none"

ExecInit ==
    /\ sigs = <<>>
    /\ delivered = 0
    /\ listenerPc = "select"
    /\ runnerPc = "run"
    /\ mainPc = "wait"
    /\ signalErr = NilErr
    /\ ctxDone = FALSE
    /\ groupErr = NilErr
    /\ cleanupCalls = 0
    /\ runResult = "running"
    /\ execResult = "pending"
    /\ sigBeforeRunEnd = "none"

\* The OS delivers a termination signal to the process.  signal.Notify never
\* blocks: a signal that finds the channel full is dropped.
DeliverSignal ==
    /\ ExecFrame
    /\ mainPc = "wait"
    /\ delivered < MaxSignals
    /\ \E s \in Signals :
        /\ sigs' = IF Len(sigs) < SigChanCap THEN Append(sigs, s) ELSE sigs
        /\ sigBeforeRunEnd' =
              IF runnerPc = "run" /\ sigBeforeRunEnd = "none" THEN s
              ELSE sigBeforeRunEnd
    /\ delivered' = delivered + 1
    /\ UNCHANGED <<listenerPc, runnerPc, mainPc, signalErr, ctxDone, groupErr,
                   cleanupCalls, runResult, execResult>>

\* select { case <-routinesCtx.Done(): return nil }
ListenerCtxDone ==
    /\ ExecFrame
    /\ listenerPc = "select"
    /\ ctxDone
    /\ listenerPc' = "done"
    /\ UNCHANGED <<sigs, delivered, runnerPc, mainPc, signalErr, ctxDone, groupErr,
                   cleanupCalls, runResult, execResult, sigBeforeRunEnd>>

\* select { case s := <-sigs: signalErr = NewSignalError(s); runner.Cleanup(...) }
ListenerTakeSignal ==
    /\ ExecFrame
    /\ listenerPc = "select"
    /\ sigs # <<>>
    /\ signalErr' = NewSignalError(Head(sigs))
    /\ sigs' = Tail(sigs)
    /\ cleanupCalls' = cleanupCalls + 1
    /\ listenerPc' = "cleanup"
    /\ UNCHANGED <<delivered, runnerPc, mainPc, ctxDone, groupErr, runResult,
                   execResult, sigBeforeRunEnd>>

\* runner.Cleanup returned; the goroutine returns signalErr to the errgroup,
\* which keeps it if it is the first error and cancels routinesCtx.
ListenerReturn ==
    /\ ExecFrame
    /\ listenerPc = "cleanup"
    /\ listenerPc' = "done"
    /\ groupErr' = GroupErrAfter(signalErr)
    /\ ctxDone' = TRUE
    /\ UNCHANGED <<sigs, delivered, runnerPc, mainPc, signalErr, cleanupCalls,
                   runResult, execResult, sigBeforeRunEnd>>

RunnerReturnNoCancel ==
    /\ ExecFrame
    /\ runnerPc = "run"
    /\ \E err \in RunErrors :
        /\ err.kind = "ContextCanceled" => ctxDone
        /\ runResult' = err
        /\ groupErr' = GroupErrAfter(err)
        /\ ctxDone' = (ctxDone \/ err # NilErr)
    /\ runnerPc' = "done"
    /\ UNCHANGED <<sigs, delivered, listenerPc, mainPc, signalErr, cleanupCalls,
                   execResult, sigBeforeRunEnd>>

\* runner.Run returns err; the deferred cancelSignalHandler cancels the
\* context routinesCtx derives from.
RunnerReturn ==
    /\ ExecFrame
    /\ runnerPc = "run"
    /\ \E err \in RunErrors :
        /\ err.kind = "ContextCanceled" => ctxDone
        /\ runResult' = err
        /\ groupErr' = GroupErrAfter(err)
    /\ runnerPc' = "done"
    /\ ctxDone' = TRUE
    /\ UNCHANGED <<sigs, delivered, listenerPc, mainPc, signalErr, cleanupCalls,
                   execResult, sigBeforeRunEnd>>

MainReturnNoWait ==
    /\ ExecFrame
    /\ mainPc = "wait"
    /\ runnerPc = "done"
    /\ execResult' = executeRunnerResult(signalErr, groupErr)
    /\ mainPc' = "returned"
    /\ UNCHANGED <<sigs, delivered, listenerPc, runnerPc, signalErr, ctxDone,
                   groupErr, cleanupCalls, runResult, sigBeforeRunEnd>>

\* routines.Wait() returns once both goroutines returned.
MainReturn ==
    /\ ExecFrame
    /\ mainPc = "wait"
    /\ listenerPc = "done"
    /\ runnerPc = "done"
    /\ execResult' = executeRunnerResult(signalErr, groupErr)
    /\ mainPc' = "returned"
    /\ UNCHANGED <<sigs, delivered, listenerPc, runnerPc, signalErr, ctxDone,
                   groupErr, cleanupCalls, runResult, sigBeforeRunEnd>>

ExecNext ==
    \/ DeliverSignal
    \/ ListenerCtxDone
    \/ ListenerTakeSignal
    \/ ListenerReturn
    \/ RunnerReturn
    \/ MainReturn

-----------------------------------------------------------------------------
(***************************************************************************)
(* SetSanitizerOptions                                                     *)
(***************************************************************************)

\* Number of colon-separated fields of the existing option string.
MaxExistingOptions == 3

\* Number of entries of the defaults map and of the overrides map.
MaxMapEntries == 2

SanKeys == {<<"e">>, <<"c">>}

SanValues == {<<"1">>, <<"2">>}

\* key + "=" + value
KeyValue(key, value) == key \o <<"=">> \o value

\* The fields an existing option string is made of: key=value options and the
\* empty field (as in "a=1::b=2" or in the empty string).
SanFields == {KeyValue(k, v) : k \in SanKeys, v \in SanValues} \cup {<<>>}

\* A Go map as the sequence of its entries in the order one range loop visits
\* them: any order, every key once.
SanMaps ==
    {m \in SeqsUpTo(SanKeys \X SanValues, MaxMapEntries) :
        \A i, j \in 1..Len(m) : i # j => m[i][1] # m[j][1]}

\* stringutil.JoinNonEmpty(options, sep)
JoinNonEmpty(options, sep) == Join(SelectNonEmpty(options), sep)

setDefaultIfNotSetAlready(options, key, value) ==
    IF \E i \in 1..Len(options) : HasPrefix(options[i], key \o <<"=">>)
    THEN options
    ELSE Append(options, KeyValue(key, value))

overrideOption(options, key, value) ==
    IF \E i \in 1..Len(options) : HasPrefix(options[i], key \o <<"=">>)
    THEN LET i == CHOOSE i \in 1..Len(options) :
                    /\ HasPrefix(options[i], key \o <<"=">>)
                    /\ \A j \in 1..(i - 1) : ~HasPrefix(options[j], key \o <<"=">>)
         IN [options EXCEPT ![i] = KeyValue(key, value)]
    ELSE Append(options, KeyValue(key, value))

\* for key, val := range defaults { options = setDefaultIfNotSetAlready(...) }
RECURSIVE ApplyDefaults(_, _)
ApplyDefaults(options, defaults) ==
    IF defaults = <<>> THEN options
    ELSE ApplyDefaults(
            setDefaultIfNotSetAlready(options, Head(defaults)[1], Head(defaults)[2]),
            Tail(defaults))

\* for key, val := range overrides { options = overrideOption(...) }
RECURSIVE ApplyOverrides(_, _)
ApplyOverrides(options, overrides) ==
    IF overrides = <<>> THEN options
    ELSE ApplyOverrides(
            overrideOption(options, Head(overrides)[1], Head(overrides)[2]),
            Tail(overrides))

SetSanitizerOptions(existingOptionsStr, defaults, overrides) ==
    JoinNonEmpty(
        ApplyOverrides(
            ApplyDefaults(Split(existingOptionsStr, ":"), defaults),
            overrides),
        <<":">>)

SanIdle ==
    /\ sanPc = "idle"
    /\ sanExisting = <<>>
    /\ sanDefaults = <<>>
    /\ sanOverrides = <<>>
    /\ sanResult = <<>>

SanInit ==
    /\ sanPc = "input"
    /\ sanExisting \in {Join(f, <<":">>) : f \in SeqsUpTo(SanFields, MaxExistingOptions)}
    /\ sanDefaults \in SanMaps
    /\ sanOverrides \in SanMaps
    /\ sanResult = <<>>

CallSetSanitizerOptions ==
    /\ SanFrame
    /\ sanPc = "input"
    /\ sanResult' = SetSanitizerOptions(sanExisting, sanDefaults, sanOverrides)
    /\ sanPc' = "done"
    /\ UNCHANGED <<sanExisting, sanDefaults, sanOverrides>>

SanNext == CallSetSanitizerOptions

\* The key of an option (the text before its first "="; the whole option when
\* it has none).
OptionKey(option) ==
    IF Index(option, "=") = 0 THEN option
    ELSE SubSeq(option, 1, Index(option, "=") - 1)

\* The non-empty options of an option string.
OptionsOf(str) == SelectNonEmpty(Split(str, ":"))

MapKeys(m) == {m[i][1] : i \in 1..Len(m)}

-----------------------------------------------------------------------------
(***************************************************************************)
(* Binding.String and BindingFromString                                    *)
(***************************************************************************)

\* Length of the source and target paths of a binding.
MaxPathLen == 2

PathChars == {"a", "b", ","}

ReadOnly == 0

ReadWrite == 1

Bindings ==
    [Source : SeqsUpTo(PathChars, MaxPathLen),
     Target : SeqsUpTo(PathChars, MaxPathLen),
     Writable : {ReadOnly, ReadWrite}]

\* b.Target after the first statement of String().
TargetOrSource(b) == IF b.Target = <<>> THEN b.Source ELSE b.Target

\* strings.ContainsRune(s, c)
ContainsRune(s, c) == \E i \in 1..Len(s) : s[i] = c

\* The string String() returns; Target has been defaulted already.
BindingString(b) ==
    IF b.Writable = ReadWrite
    THEN b.Source \o <<",">> \o b.Target \o <<",", "1">>
    ELSE IF ContainsRune(b.Source, ",") \/ ContainsRune(b.Target, ",")
    THEN b.Source \o <<",">> \o b.Target \o <<",", "0">>
    ELSE IF b.Source # b.Target
    THEN b.Source \o <<",">> \o b.Target
    ELSE b.Source

\* strings.SplitN(s, sep, n) for a one-character sep and n > 0: at most n
\* fields, the last one holding the unsplit rest.
RECURSIVE SplitN(_, _, _)
SplitN(s, sep, n) ==
    LET i == Index(s, sep) IN
    IF n = 1 \/ i = 0 THEN <<s>>
    ELSE <<SubSeq(s, 1, i - 1)>> \o SplitN(SubSeq(s, i + 1, Len(s)), sep, n - 1)

Digits == {"0", "1", "2", "3", "4", "5", "6", "7", "8", "9"}

DigitValue(c) ==
    CASE c = "0" -> 0 [] c = "1" -> 1 [] c = "2" -> 2 [] c = "3" -> 3
      [] c = "4" -> 4 [] c = "5" -> 5 [] c = "6" -> 6 [] c = "7" -> 7
      [] c = "8" -> 8 [] c = "9" -> 9

RECURSIVE DecimalValue(_)
DecimalValue(s) ==
    IF s = <<>> THEN 0 ELSE 10 * DecimalValue(Front(s)) + DigitValue(Last(s))

\* strconv.Atoi(s): an optional sign and at least one decimal digit.
Atoi(s) ==
    LET signed == s # <<>> /\ s[1] \in {"+", "-"}
        digits == IF signed THEN Tail(s) ELSE s
    IN  IF digits # <<>> /\ \A i \in 1..Len(digits) : digits[i] \in Digits
        THEN [ok |-> TRUE,
              value |-> IF signed /\ s[1] = "-" THEN 0 - DecimalValue(digits)
                        ELSE DecimalValue(digits)]
        ELSE [ok |-> FALSE, value |-> 0]

NoBinding == [Source |-> <<>>, Target |-> <<>>, Writable |-> ReadOnly]

\* BindingFromString(s): [ok, binding]
BindingFromString(s) ==
    LET tokens == SplitN(s, ",", 3) IN
    CASE Len(tokens) = 1 ->
            [ok |-> TRUE,
             binding |-> [Source |-> tokens[1], Target |-> tokens[1],
                          Writable |-> 0]]
      [] Len(tokens) = 2 ->
            [ok |-> TRUE,
             binding |-> [Source |-> tokens[1], Target |-> tokens[2],
                          Writable |-> 0]]
      [] Len(tokens) = 3 ->
            IF Atoi(tokens[3]).ok
            THEN [ok |-> TRUE,
                  binding |-> [Source |-> tokens[1], Target |-> tokens[2],
                               Writable |-> Atoi(tokens[3]).value]]
            ELSE [ok |-> FALSE, binding |-> NoBinding]
      [] OTHER -> [ok |-> FALSE, binding |-> NoBinding]

BindIdle ==
    /\ bindPc = "idle"
    /\ bindInput = NoBinding
    /\ binding = NoBinding
    /\ bindStr = <<>>
    /\ bindParsed = NoBinding
    /\ bindErr = FALSE

BindInit ==
    /\ bindPc = "input"
    /\ bindInput \in Bindings
    /\ binding = bindInput
    /\ bindStr = <<>>
    /\ bindParsed = NoBinding
    /\ bindErr = FALSE

\* s := b.String()
CallString ==
    /\ BindFrame
    /\ bindPc = "input"
    /\ binding' = [binding EXCEPT !.Target = TargetOrSource(binding)]
    /\ bindStr' = BindingString(binding')
    /\ bindPc' = "string"
    /\ UNCHANGED <<bindInput, bindParsed, bindErr>>

\* BindingFromString(s)
CallBindingFromString ==
    /\ BindFrame
    /\ bindPc = "string"
    /\ bindParsed' = BindingFromString(bindStr).binding
    /\ bindErr' = ~BindingFromString(bindStr).ok
    /\ bindPc' = "parsed"
    /\ UNCHANGED <<bindInput, binding, bindStr>>

BindNext ==
    \/ CallString
    \/ CallBindingFromString

-----------------------------------------------------------------------------
(***************************************************************************)
(* countCorpusEntries                                                      *)
(***************************************************************************)

\* Length of the list of directories handed to countCorpusEntries.
MaxDirs == 3

\* Number of files directly in a corpus directory.
MaxFiles == 2

\* Number of files in a subdirectory of a corpus directory.
MaxSubFiles == 1

CorpusDirNames == {"seeds", "generated"}

\* File sizes in bytes: an empty file and a non-empty one.
FileSizes == {0, 5}

\* A directory that exists: the sizes of its files and its subdirectories.
LeafTrees ==
    [kind : {"Dir"}, files : SeqsUpTo(FileSizes, MaxSubFiles), dirs : {<<>>}]

Trees ==
    [kind : {"Dir"}, files : SeqsUpTo(FileSizes, MaxFiles),
     dirs : {<<>>} \cup {<<t>> : t \in LeafTrees}]

Missing == [kind |-> "Missing", files |-> <<>>, dirs |-> <<>>]

Unreadable == [kind |-> "Unreadable", files |-> <<>>, dirs |-> <<>>]

\* What a path can be: absent, a directory that cannot be read, a directory.
DirStates == {Missing, Unreadable} \cup Trees

\* The callback of filepath.WalkDir over the files of one directory level.
RECURSIVE CountNonEmpty(_)
CountNonEmpty(sizes) ==
    IF sizes = <<>> THEN 0
    ELSE (IF Head(sizes) # 0 THEN 1 ELSE 0) + CountNonEmpty(Tail(sizes))

\* seedsInDir after filepath.WalkDir(dir, ...) over an existing directory.
RECURSIVE WalkDirCount(_)
RECURSIVE WalkDirsCount(_)
WalkDirCount(tree) == CountNonEmpty(tree.files) + WalkDirsCount(tree.dirs)
WalkDirsCount(trees) ==
    IF trees = <<>> THEN 0
    ELSE WalkDirCount(Head(trees)) + WalkDirsCount(Tail(trees))

CorpusIdle ==
    /\ corpusPc = "idle"
    /\ corpusFs = <<>>
    /\ corpusDirs = <<>>
    /\ corpusIdx = 1
    /\ numSeeds = 0
    /\ corpusResult = [count |-> 0, err |-> FALSE]

CorpusInit ==
    /\ corpusPc = "loop"
    /\ corpusFs \in [CorpusDirNames -> DirStates]
    /\ corpusDirs \in SeqsUpTo(CorpusDirNames, MaxDirs)
    /\ corpusIdx = 1
    /\ numSeeds = 0
    /\ corpusResult = [count |-> 0, err |-> FALSE]

\* One iteration of the loop over a directory that does not exist:
\* os.IsNotExist(err), return 0, nil.
WalkMissingDir ==
    /\ CorpusFrame
    /\ corpusPc = "loop"
    /\ corpusIdx <= Len(corpusDirs)
    /\ corpusFs[corpusDirs[corpusIdx]].kind = "Missing"
    /\ corpusResult' = [count |-> 0, err |-> FALSE]
    /\ corpusPc' = "returned"
    /\ UNCHANGED <<corpusFs, corpusDirs, corpusIdx, numSeeds>>

\* One iteration over a directory WalkDir fails on: return 0, err.
WalkUnreadableDir ==
    /\ CorpusFrame
    /\ corpusPc = "loop"
    /\ corpusIdx <= Len(corpusDirs)
    /\ corpusFs[corpusDirs[corpusIdx]].kind = "Unreadable"
    /\ corpusResult' = [count |-> 0, err |-> TRUE]
    /\ corpusPc' = "returned"
    /\ UNCHANGED <<corpusFs, corpusDirs, corpusIdx, numSeeds>>

\* One iteration over a directory that exists: numSeeds += seedsInDir.
WalkDir ==
    /\ CorpusFrame
    /\ corpusPc = "loop"
    /\ corpusIdx <= Len(corpusDirs)
    /\ corpusFs[corpusDirs[corpusIdx]].kind = "Dir"
    /\ numSeeds' = numSeeds + WalkDirCount(corpusFs[corpusDirs[corpusIdx]])
    /\ corpusIdx' = corpusIdx + 1
    /\ UNCHANGED <<corpusPc, corpusFs, corpusDirs, corpusResult>>

\* return numSeeds, nil
CountReturn ==
    /\ CorpusFrame
    /\ corpusPc = "loop"
    /\ corpusIdx > Len(corpusDirs)
    /\ corpusResult' = [count |-> numSeeds, err |-> FALSE]
    /\ corpusPc' = "returned"
    /\ UNCHANGED <<corpusFs, corpusDirs, corpusIdx, numSeeds>>

CorpusNext ==
    \/ WalkMissingDir
    \/ WalkUnreadableDir
    \/ WalkDir
    \/ CountReturn

\* The number of non-empty files under the listed directories that exist.
RECURSIVE NonEmptyFilesUnder(_, _)
NonEmptyFilesUnder(fs, dirs) ==
    IF dirs = <<>> THEN 0
    ELSE (IF fs[Head(dirs)].kind = "Dir" THEN WalkDirCount(fs[Head(dirs)]) ELSE 0)
            + NonEmptyFilesUnder(fs, Tail(dirs))

-----------------------------------------------------------------------------
(***************************************************************************)
(* Paths                                                                   *)
(*                                                                         *)
(* A path is a sequence of characters.  The file system is encoded in the  *)
(* names: "/" separates components, a component "L" is a symbolic link to  *)
(* the sibling "T", a component "?" does not exist, every other component  *)
(* is a plain directory or file.                                           *)
(***************************************************************************)

\* The working directory of the process.
Cwd == <<"/", "w">>

\* The path exists: no component of it is missing.
PathExists(path) == ~ContainsRune(path, "?")

\* filepath.IsAbs(path)
IsAbs(path) == path # <<>> /\ path[1] = "/"

\* filepath.Abs(path)
Abs(path) == IF IsAbs(path) THEN path ELSE Cwd \o <<"/">> \o path

\* The path filepath.EvalSymlinks(path) returns for a path that exists.
EvalSymlinks(path) ==
    [i \in 1..Len(path) |-> IF path[i] = "L" THEN "T" ELSE path[i]]

\* filepath.Join(dir, name) for clean arguments.
JoinPath(dir, name) == dir \o <<"/">> \o name

\* The path is canonical: absolute and free of symbolic links.
IsCanonical(path) == IsAbs(path) /\ ~ContainsRune(path, "L")

-----------------------------------------------------------------------------
(***************************************************************************)
(* runCmd.runFuzzTest                                                      *)
(***************************************************************************)

BuildSystemBazel == "bazel"

BuildSystems == {"cmake", BuildSystemBazel, "other", "maven", "gradle"}

\* What "bazel info install_base" prints; <<>> stands for a failing command.
BazelInfoOutputs == {<<>>, <<"/", "i", "\n">>, <<" ", "/", "j", "\n">>}

WhiteSpace == {" ", "\n", "\t", "\r"}

\* strings.TrimSpace(s)
RECURSIVE TrimLeft(_)
TrimLeft(s) ==
    IF s # <<>> /\ Head(s) \in WhiteSpace THEN TrimLeft(Tail(s)) ELSE s

RECURSIVE TrimRight(_)
TrimRight(s) ==
    IF s # <<>> /\ Last(s) \in WhiteSpace THEN TrimRight(Front(s)) ELSE s

TrimSpace(s) == TrimRight(TrimLeft(s))

NoRunnerOpts ==
    [FuzzTarget |-> <<>>, GeneratedCorpusDir |-> <<>>, ReadOnlyBindings |-> <<>>,
     SeedCorpusDirs |-> <<>>, UseMinijail |-> FALSE]

\* runnerOpts := &libfuzzer.RunnerOptions{...}
NewRunnerOptions(opts, buildResult, seedDirs, bindings) ==
    [FuzzTarget |-> buildResult.Executable,
     GeneratedCorpusDir |-> buildResult.GeneratedCorpus,
     ReadOnlyBindings |-> <<buildResult.BuildDir>>,
     SeedCorpusDirs |-> seedDirs,
     UseMinijail |-> opts.UseSandbox]

\* switch c.opts.BuildSystem { ... }
RunnerFor(buildSystem) ==
    IF buildSystem \in {"cmake", BuildSystemBazel, "other"} THEN "libfuzzer"
    ELSE "jazzer"

RfIdle ==
    /\ rfPc = "idle"
    /\ rfOpts = [BuildSystem |-> "cmake", SeedCorpusDirs |-> <<>>,
                 UseSandbox |-> FALSE]
    /\ rfBuildResult = [Executable |-> <<>>, BuildDir |-> <<>>,
                        GeneratedCorpus |-> <<>>, SeedCorpus |-> <<>>]
    /\ seedCorpusDirs = <<>>
    /\ readOnlyBindings = <<>>
    /\ installBase = <<>>
    /\ runnerOpts = NoRunnerOpts
    /\ rfRunner = "none"
    /\ rfErr = "nil"

RfInit ==
    /\ rfPc = "mkdir"
    /\ rfOpts \in [BuildSystem : BuildSystems,
                   SeedCorpusDirs : {<<>>, << <<"/", "s">> >>, << <<"/", "?">> >>},
                   UseSandbox : BOOLEAN]
    /\ rfBuildResult \in
          [Executable : {<<"/", "b", "/", "x">>},
           BuildDir : {<<"/", "b">>, <<"/", "c">>},
           GeneratedCorpus : {<<"/", "g">>, <<"/", "L", "/", "g">>},
           SeedCorpus : {<<"/", "d">>, <<"/", "?">>}]
    /\ seedCorpusDirs = <<>>
    /\ readOnlyBindings = <<>>
    /\ installBase = <<>>
    /\ runnerOpts = NoRunnerOpts
    /\ rfRunner = "none"
    /\ rfErr = "nil"

\* err := os.MkdirAll(buildResult.GeneratedCorpus, 0o755)
MkdirGeneratedCorpus ==
    /\ RfFrame
    /\ rfPc = "mkdir"
    /\ \E ok \in BOOLEAN :
        IF ok THEN rfPc' = "seeds" /\ rfErr' = rfErr
        ELSE rfPc' = "returned" /\ rfErr' = "mkdir"
    /\ UNCHANGED <<rfOpts, rfBuildResult, seedCorpusDirs, readOnlyBindings,
                   installBase, runnerOpts, rfRunner>>

\* seedCorpusDirs := c.opts.SeedCorpusDirs, plus buildResult.SeedCorpus if it
\* exists
CollectSeedCorpusDirs ==
    /\ RfFrame
    /\ rfPc = "seeds"
    /\ seedCorpusDirs' =
          IF PathExists(rfBuildResult.SeedCorpus)
          THEN Append(rfOpts.SeedCorpusDirs, rfBuildResult.SeedCorpus)
          ELSE rfOpts.SeedCorpusDirs
    /\ rfPc' = "resolve"
    /\ UNCHANGED <<rfOpts, rfBuildResult, readOnlyBindings, installBase,
                   runnerOpts, rfRunner, rfErr>>

\* filepath.EvalSymlinks on the generated corpus and on every seed corpus dir
ResolveCorpusDirs ==
    /\ RfFrame
    /\ rfPc = "resolve"
    /\ IF \A i \in 1..Len(seedCorpusDirs) : PathExists(seedCorpusDirs[i])
       THEN /\ rfBuildResult' =
                  [rfBuildResult EXCEPT
                      !.GeneratedCorpus = EvalSymlinks(rfBuildResult.GeneratedCorpus)]
            /\ seedCorpusDirs' =
                  [i \in 1..Len(seedCorpusDirs) |-> EvalSymlinks(seedCorpusDirs[i])]
            /\ rfPc' = "bindings"
            /\ rfErr' = rfErr
       ELSE /\ rfBuildResult' =
                  [rfBuildResult EXCEPT
                      !.GeneratedCorpus = EvalSymlinks(rfBuildResult.GeneratedCorpus)]
            /\ seedCorpusDirs' = seedCorpusDirs
            /\ rfPc' = "returned"
            /\ rfErr' = "evalsymlinks"
    /\ UNCHANGED <<rfOpts, readOnlyBindings, installBase, runnerOpts, rfRunner>>

\* readOnlyBindings := []string{buildResult.BuildDir}, for a build system
\* other than Bazel
InitBindings ==
    /\ RfFrame
    /\ rfPc = "bindings"
    /\ rfOpts.BuildSystem # BuildSystemBazel
    /\ readOnlyBindings' = <<rfBuildResult.BuildDir>>
    /\ rfPc' = "opts"
    /\ UNCHANGED <<rfOpts, rfBuildResult, seedCorpusDirs, installBase,
                   runnerOpts, rfRunner, rfErr>>

\* readOnlyBindings for Bazel: "bazel info install_base" is run and its
\* trimmed output appended; a failing command ends runFuzzTest with ErrSilent.
InitBindingsBazel ==
    /\ RfFrame
    /\ rfPc = "bindings"
    /\ rfOpts.BuildSystem = BuildSystemBazel
    /\ \E out \in BazelInfoOutputs :
        IF out = <<>>
        THEN /\ readOnlyBindings' = <<rfBuildResult.BuildDir>>
             /\ installBase' = installBase
             /\ rfPc' = "returned"
             /\ rfErr' = "ErrSilent"
        ELSE /\ installBase' = TrimSpace(out)
             /\ readOnlyBindings' = <<rfBuildResult.BuildDir, installBase'>>
             /\ rfPc' = "opts"
             /\ rfErr' = rfErr
    /\ UNCHANGED <<rfOpts, rfBuildResult, seedCorpusDirs, runnerOpts, rfRunner>>

\* runnerOpts := &libfuzzer.RunnerOptions{...} and the choice of the runner
MakeRunner ==
    /\ RfFrame
    /\ rfPc = "opts"
    /\ runnerOpts' =
          NewRunnerOptions(rfOpts, rfBuildResult, seedCorpusDirs, readOnlyBindings)
    /\ rfRunner' = RunnerFor(rfOpts.BuildSystem)
    /\ rfPc' = "execute"
    /\ UNCHANGED <<rfOpts, rfBuildResult, seedCorpusDirs, readOnlyBindings,
                   installBase, rfErr>>

\* return executeRunner(runner)
ReturnExecuteRunner ==
    /\ RfFrame
    /\ rfPc = "execute"
    /\ \E err \in {"nil", "SignalError", "ExecError"} : rfErr' = err
    /\ rfPc' = "returned"
    /\ UNCHANGED <<rfOpts, rfBuildResult, seedCorpusDirs, readOnlyBindings,
                   installBase, runnerOpts, rfRunner>>

RfNext ==
    \/ MkdirGeneratedCorpus
    \/ CollectSeedCorpusDirs
    \/ ResolveCorpusDirs
    \/ InitBindings
    \/ InitBindingsBazel
    \/ MakeRunner
    \/ ReturnExecuteRunner

-----------------------------------------------------------------------------
(***************************************************************************)
(* ChannelPassthrough.Handle and RunnerTest.Run                            *)
(***************************************************************************)

\* reportCh := make(chan *report.Report, 1024)
ChanCap == 1024

\* Number of reports the runner produces beyond the capacity of the channel.
MaxOverflow == 2

MaxReports == ChanCap + MaxOverflow

\* The places of the report stream at which the fuzzer may report a finding;
\* every other report is a metric report.
FindingPositions == {1} \cup (ChanCap..MaxReports)

ReportKindsAt(n) ==
    IF n \in FindingPositions THEN {"metric", "finding"} ELSE {"metric"}

\* select { case cp.ch <- report: ... default: }
ChanSend(channel, report) ==
    IF Len(channel) < ChanCap THEN Append(channel, report) ELSE channel

ChanIdle ==
    /\ chanPc = "idle"
    /\ ch = <<>>
    /\ produced = 0
    /\ producedFindings = {}
    /\ reports = <<>>

ChanInit ==
    /\ chanPc = "running"
    /\ ch = <<>>
    /\ produced = 0
    /\ producedFindings = {}
    /\ reports = <<>>

\* The runner passes its next report to cp.Handle.
Handle ==
    /\ ChanFrame
    /\ chanPc = "running"
    /\ produced < MaxReports
    /\ \E kind \in ReportKindsAt(produced + 1) :
        LET report == [id |-> produced + 1, kind |-> kind] IN
        /\ ch' = ChanSend(ch, report)
        /\ producedFindings' =
              IF kind = "finding" THEN producedFindings \cup {report}
              ELSE producedFindings
    /\ produced' = produced + 1
    /\ UNCHANGED <<chanPc, reports>>

\* test.Start returns: the run has ended and the deferred close(reportCh) ran.
StartReturn ==
    /\ ChanFrame
    /\ chanPc = "running"
    /\ chanPc' = "closed"
    /\ UNCHANGED <<ch, produced, producedFindings, reports>>

\* for report := range reportCh { reports = append(reports, report) }
\* Nothing else runs any more, so the loop is one step.
CollectReports ==
    /\ ChanFrame
    /\ chanPc = "closed"
    /\ reports' = reports \o ch
    /\ ch' = <<>>
    /\ chanPc' = "collected"
    /\ UNCHANGED <<produced, producedFindings>>

ChanNext ==
    \/ Handle
    \/ StartReturn
    \/ CollectReports

-----------------------------------------------------------------------------
(***************************************************************************)
(* cmake.Builder.BuildDir and cmake.Builder.Configure                      *)
(*                                                                         *)
(* File names and option names are single elements of a string here: no    *)
(* code looks inside them.                                                 *)
(***************************************************************************)

\* Number of Configure calls on one project.
MaxConfigures == 3

cmakeBuildConfiguration == "RelWithDebInfo"

Engines == {"libfuzzer", "replayer"}

SanitizerLists == {<<>>, <<"address">>, <<"address", "undefined">>}

ProjectDirs == {<<"/", "p">>, <<"/", "L", "/", "p">>, <<"p">>}

BuilderOptions ==
    [ProjectDir : ProjectDirs, Engine : Engines, Sanitizers : SanitizerLists,
     Verbose : BOOLEAN]

\* strings.Join(list, sep) for a list of names.
RECURSIVE JoinNames(_, _)
JoinNames(list, sep) ==
    IF list = <<>> THEN <<>>
    ELSE IF Len(list) = 1 THEN <<list[1]>>
    ELSE <<list[1], sep>> \o JoinNames(Tail(list), sep)

\* (b *Builder) BuildDir()
BuildDir(b) ==
    LET sanitizersSegment ==
            IF JoinNames(b.Sanitizers, "+") = <<>> THEN <<"none">>
            ELSE JoinNames(b.Sanitizers, "+")
    IN  JoinPath(JoinPath(JoinPath(b.ProjectDir, <<".cifuzz-build">>),
                          <<b.Engine>>),
                 sanitizersSegment)

\* The cache arguments Configure passes to cmake.
CacheArgs(b, os) ==
    << <<"-DCMAKE_BUILD_TYPE=", cmakeBuildConfiguration>>,
       <<"-DCIFUZZ_ENGINE=", b.Engine>>,
       <<"-DCIFUZZ_SANITIZERS=">> \o JoinNames(b.Sanitizers, ";"),
       <<"-DCIFUZZ_TESTING:BOOL=ON">> >>
    \o (IF b.Verbose THEN << <<"-DCMAKE_VERBOSE_MAKEFILE:BOOL=ON">> >> ELSE <<>>)
    \o (IF os # "windows" THEN << <<"-DCMAKE_BUILD_RPATH_USE_ORIGIN:BOOL=ON">> >>
        ELSE <<>>)

NoBuilder ==
    [ProjectDir |-> <<>>, Engine |-> "libfuzzer", Sanitizers |-> <<>>,
     Verbose |-> FALSE]

CfgIdle ==
    /\ cfgPc = "idle"
    /\ goos = "linux"
    /\ builder = NoBuilder
    /\ cmakeRuns = {}
    /\ configures = 0

CfgInit ==
    /\ cfgPc = "new"
    /\ goos \in {"linux", "windows"}
    /\ builder \in {[NoBuilder EXCEPT !.ProjectDir = p] : p \in ProjectDirs}
    /\ cmakeRuns = {}
    /\ configures = 0

\* cmake.NewBuilder(opts), for the project of the builder before
NewBuilder ==
    /\ CfgFrame
    /\ cfgPc = "new"
    /\ configures < MaxConfigures
    /\ \E opts \in BuilderOptions :
        /\ opts.ProjectDir = builder.ProjectDir
        /\ builder' = opts
    /\ cfgPc' = "configure"
    /\ UNCHANGED <<goos, cmakeRuns, configures>>

\* (b *Builder) Configure(): cmake <cacheArgs> <ProjectDir>, run in BuildDir()
Configure ==
    /\ CfgFrame
    /\ cfgPc = "configure"
    /\ cmakeRuns' = cmakeRuns \cup
            {[dir |-> BuildDir(builder), cache |-> CacheArgs(builder, goos)]}
    /\ configures' = configures + 1
    /\ cfgPc' = "new"
    /\ UNCHANGED <<goos, builder>>

CfgNext ==
    \/ NewBuilder
    \/ Configure

-----------------------------------------------------------------------------
(***************************************************************************)
(* cmake.Builder.Build with getRuntimeDeps, and maven.Builder.Build        *)
(***************************************************************************)

\* Number of lines in the output of "cmake --install".
MaxDepLines == 2

\* Number of entries of the class path Maven prints.
MaxJars == 2

\* fileutil.CanonicalPath(path): the absolute path with all symbolic links
\* resolved; resolving a path that does not exist is an error.
CanonicalPath(path) ==
    IF PathExists(Abs(path))
    THEN [err |-> "nil", path |-> EvalSymlinks(Abs(path))]
    ELSE [err |-> "error", path |-> <<>>]

Adapters == {"cmake", "maven"}

BuildOptions ==
    [ProjectDir : ProjectDirs, Engine : {"libfuzzer"},
     Sanitizers : {<<"address">>}, Verbose : {FALSE}, FindRuntimeDeps : BOOLEAN]

FuzzTestLists == {<<"t1">>, <<"t1", "t2">>}

\* What an info file of the CMake integration can hold for a fuzz test: a
\* path below dir that exists or one that does not; NoFile is a missing file.
NoFile == <<"no file">>

InfoFileContents(dir, kind) ==
    {JoinPath(Abs(dir), <<kind>>), JoinPath(Abs(dir), <<"?">>), NoFile}

\* (b *Builder) readInfoFileAsPath, given the content of the info file
readInfoFileAsPath(content) ==
    IF content = NoFile THEN [err |-> "error", path |-> <<>>]
    ELSE CanonicalPath(content)

DepPaths == {<<"/", "a">>, <<"/", "L", "/", "a">>, <<"?">>}

DepStatuses == {"RESOLVED", "UNRESOLVED", "CONFLICTING"}

DepLine(status, path) == <<"-- CIFUZZ ", status, " ">> \o path

\* The lines "cmake --install" can print.
InstallLines ==
    {<<"-- Install configuration">>, <<"-- CIFUZZ ", "RESOLVED">>,
     DepLine("BOGUS", <<"/", "a">>)}
    \cup {DepLine(st, p) : st \in DepStatuses, p \in DepPaths}

InstallOutputs == SeqsUpTo(InstallLines, MaxDepLines)

NoDeps ==
    [err |-> "nil", resolvedDeps |-> <<>>, unresolvedDeps |-> <<>>,
     conflictingDeps |-> <<>>]

\* The scanner loop of getRuntimeDeps over the lines left, acc holding the
\* dependencies found so far.
RECURSIVE ScanDepLines(_, _)
ScanDepLines(lines, acc) ==
    IF lines = <<>> THEN acc
    ELSE
        LET line == Head(lines)
            statusAndDep == SubSeq(line, 2, Len(line))
            endOfStatus == Index(statusAndDep, " ")
            status == SubSeq(statusAndDep, 1, endOfStatus - 1)
            dep == CanonicalPath(SubSeq(statusAndDep, endOfStatus + 1,
                                        Len(statusAndDep)))
        IN  IF ~HasPrefix(line, <<"-- CIFUZZ ">>)
            THEN ScanDepLines(Tail(lines), acc)
            ELSE IF endOfStatus = 0
            THEN [NoDeps EXCEPT !.err = "invalid runtime dep line"]
            ELSE IF dep.err # "nil"
            THEN [NoDeps EXCEPT !.err = dep.err]
            ELSE IF status = <<"UNRESOLVED">>
            THEN ScanDepLines(Tail(lines),
                    [acc EXCEPT !.unresolvedDeps = Append(@, dep.path)])
            ELSE IF status = <<"CONFLICTING">>
            THEN ScanDepLines(Tail(lines),
                    [acc EXCEPT !.conflictingDeps = Append(@, dep.path)])
            ELSE IF status = <<"RESOLVED">>
            THEN ScanDepLines(Tail(lines),
                    [acc EXCEPT !.resolvedDeps = Append(@, dep.path)])
            ELSE [NoDeps EXCEPT !.err = "invalid status"]

\* (b *Builder) getRuntimeDeps, given the output of "cmake --install"
getRuntimeDeps(stdout) == ScanDepLines(stdout, NoDeps)

\* getRuntimeDeps logs a warning
DepsWarning(found) ==
    found.err = "nil" /\ (found.unresolvedDeps # <<>> \/ found.conflictingDeps # <<>>)

\* The build.Result cmake's Build stores for fuzzTest.
CMakeResult(b, fuzzTest, exe, seeds, dir, runtimeDeps) ==
    [Name |-> fuzzTest, Executable |-> exe,
     GeneratedCorpus |->
        JoinPath(JoinPath(b.ProjectDir, <<".cifuzz-corpus">>), <<fuzzTest>>),
     SeedCorpus |-> seeds, BuildDir |-> dir, ProjectDir |-> b.ProjectDir,
     RuntimeDeps |-> runtimeDeps]

\* cmdutils.JazzerSeedCorpus(targetClass, projectDir)
JazzerSeedCorpus(targetClass, projectDir) ==
    JoinPath(JoinPath(projectDir, <<"src/test/resources">>),
             <<targetClass, "Inputs">>)

\* cmdutils.JazzerGeneratedCorpus(targetClass, projectDir)
JazzerGeneratedCorpus(targetClass, projectDir) ==
    JoinPath(JoinPath(projectDir, <<".cifuzz-corpus">>), <<targetClass>>)

\* The build.Result maven's Build returns.
MavenResult(b, targetClass, dir, runtimeDeps) ==
    [Name |-> targetClass, Executable |-> <<>>,
     GeneratedCorpus |-> JazzerGeneratedCorpus(targetClass, b.ProjectDir),
     SeedCorpus |-> JazzerSeedCorpus(targetClass, b.ProjectDir),
     BuildDir |-> dir, ProjectDir |-> b.ProjectDir,
     RuntimeDeps |-> runtimeDeps]

PathListSeparator == ":"

\* The directory Maven bases the paths it prints on: the working directory
\* of the command, as given or with its symbolic links resolved.
MavenBaseDirs(projectDir) == {Abs(projectDir), EvalSymlinks(Abs(projectDir))}

Jars(base) ==
    {<<"/", "r", "/", "x.jar">>, <<"/", "L", "/", "y.jar">>,
     JoinPath(base, <<"lib">>)}

\* The files "mvn dependency:build-classpath" can write.
ClasspathFiles(base) ==
    {Join(cp, <<PathListSeparator>>) \o nl :
        cp \in SeqsUpTo(Jars(base), MaxJars), nl \in {<<>>, <<"\n">>}}

ResourceDirs(base) == {JoinPath(base, <<"res">>), JoinPath(base, <<"lib">>)}

\* The projects "mvn help:evaluate -Dexpression=project" can describe.
MavenProjects(base) ==
    [OutputDirectory : {JoinPath(base, <<"target/classes">>)},
     TestOutputDirectory : {JoinPath(base, <<"target/test-classes">>)},
     Resources : SeqsUpTo(ResourceDirs(base), 1),
     TestResources : SeqsUpTo(ResourceDirs(base), 1)]

\* The localDeps getLocalDependencies collects from the project.
LocalDeps(project) ==
    <<project.OutputDirectory, project.TestOutputDirectory>>
    \o project.Resources \o project.TestResources

NotCalled == [NoDeps EXCEPT !.err = "not called"]

BuildIdle ==
    /\ buildPc = "idle"
    /\ adapter = "cmake"
    /\ bld = [NoBuilder EXCEPT !.ProjectDir = <<"/", "p">>] @@ [FindRuntimeDeps |-> FALSE]
    /\ fuzzTests = <<>>
    /\ testIdx = 1
    /\ buildDir = <<>>
    /\ executable = <<>>
    /\ seedCorpus = <<>>
    /\ installOut = <<>>
    /\ depsRet = NotCalled
    /\ warned = FALSE
    /\ mvnBase = <<>>
    /\ deps = <<>>
    /\ results = {}
    /\ buildErr = "nil"

\* A builder made by NewBuilder, about to run Build: the project directory
\* exists and, for CMake, so does the build directory.
BuildInit ==
    /\ buildPc = "build"
    /\ adapter \in Adapters
    /\ bld \in BuildOptions
    /\ fuzzTests \in FuzzTestLists
    /\ adapter = "maven" => (Len(fuzzTests) = 1 /\ ~bld.FindRuntimeDeps)
    /\ mvnBase \in MavenBaseDirs(bld.ProjectDir)
    /\ adapter = "cmake" => mvnBase = Abs(bld.ProjectDir)
    /\ testIdx = 1
    /\ buildDir = <<>>
    /\ executable = <<>>
    /\ seedCorpus = <<>>
    /\ installOut = <<>>
    /\ depsRet = NotCalled
    /\ warned = FALSE
    /\ deps = <<>>
    /\ results = {}
    /\ buildErr = "nil"

\* return nil, err
BuildFails(err) ==
    /\ buildErr' = err
    /\ buildPc' = "done"

\* (b *Builder) Build of cmake up to the loop over the fuzz tests:
\* the canonical build directory and "cmake --build"
CMakeBuild ==
    /\ BuildFrame
    /\ buildPc = "build"
    /\ adapter = "cmake"
    /\ LET dir == CanonicalPath(BuildDir(bld)) IN
        \/ /\ dir.err # "nil"
           /\ BuildFails(dir.err)
           /\ UNCHANGED buildDir
        \/ /\ dir.err = "nil"
           /\ BuildFails("ErrSilent")
           /\ buildDir' = dir.path
        \/ /\ dir.err = "nil"
           /\ buildDir' = dir.path
           /\ buildPc' = "executable"
           /\ UNCHANGED buildErr
    /\ UNCHANGED <<adapter, bld, fuzzTests, testIdx, executable, seedCorpus,
                   installOut, depsRet, warned, mvnBase, deps, results>>

\* b.findFuzzTestExecutable(fuzzTest)
FindFuzzTestExecutable ==
    /\ BuildFrame
    /\ buildPc = "executable"
    /\ \E content \in InfoFileContents(BuildDir(bld), fuzzTests[testIdx]) :
        LET path == readInfoFileAsPath(content) IN
        IF path.err # "nil"
        THEN BuildFails(path.err) /\ UNCHANGED executable
        ELSE /\ executable' = path.path
             /\ buildPc' = "seedCorpus"
             /\ UNCHANGED buildErr
    /\ UNCHANGED <<adapter, bld, fuzzTests, testIdx, buildDir, seedCorpus,
                   installOut, depsRet, warned, mvnBase, deps, results>>

\* b.findFuzzTestSeedCorpus(fuzzTest)
FindFuzzTestSeedCorpus ==
    /\ BuildFrame
    /\ buildPc = "seedCorpus"
    /\ \E content \in InfoFileContents(bld.ProjectDir, "seeds") :
        LET path == readInfoFileAsPath(content) IN
        IF path.err # "nil"
        THEN BuildFails(path.err) /\ UNCHANGED seedCorpus
        ELSE /\ seedCorpus' = path.path
             /\ buildPc' = "runtimeDeps"
             /\ UNCHANGED buildErr
    /\ UNCHANGED <<adapter, bld, fuzzTests, testIdx, buildDir, executable,
                   installOut, depsRet, warned, mvnBase, deps, results>>

\* results[fuzzTest] = &build.Result{...} and the next round of the loop
StoreResult(runtimeDeps) ==
    /\ results' = {r \in results : r.Name # fuzzTests[testIdx]} \cup
            {CMakeResult(bld, fuzzTests[testIdx], executable, seedCorpus,
                         buildDir, runtimeDeps)}
    /\ testIdx' = testIdx + 1
    /\ buildPc' = IF testIdx < Len(fuzzTests) THEN "executable" ELSE "done"
    /\ UNCHANGED buildErr

\* The rest of a round of the loop: b.getRuntimeDeps(fuzzTest) when
\* FindRuntimeDeps is set, and the result of the fuzz test.
GetRuntimeDeps ==
    /\ BuildFrame
    /\ buildPc = "runtimeDeps"
    /\ \/ /\ ~bld.FindRuntimeDeps
          /\ StoreResult(<<>>)
          /\ UNCHANGED <<installOut, depsRet, warned>>
       \/ /\ bld.FindRuntimeDeps
          /\ installOut' = <<>>
          /\ depsRet' = [NoDeps EXCEPT !.err = "ErrSilent"]
          /\ BuildFails("ErrSilent")
          /\ UNCHANGED <<warned, results, testIdx>>
       \/ /\ bld.FindRuntimeDeps
          /\ \E stdout \in InstallOutputs :
                /\ installOut' = stdout
                /\ depsRet' = getRuntimeDeps(stdout)
          /\ warned' = (warned \/ DepsWarning(depsRet'))
          /\ IF depsRet'.err # "nil"
             THEN BuildFails(depsRet'.err) /\ UNCHANGED <<results, testIdx>>
             ELSE StoreResult(depsRet'.resolvedDeps)
    /\ UNCHANGED <<adapter, bld, fuzzTests, buildDir, executable, seedCorpus,
                   mvnBase, deps>>

\* (b *Builder) Build of maven: "mvn test-compile"
MavenTestCompile ==
    /\ BuildFrame
    /\ buildPc = "build"
    /\ adapter = "maven"
    /\ \/ BuildFails("ErrSilent")
       \/ buildPc' = "external" /\ UNCHANGED buildErr
    /\ UNCHANGED <<adapter, bld, fuzzTests, testIdx, buildDir, executable,
                   seedCorpus, installOut, depsRet, warned, mvnBase, deps,
                   results>>

\* b.getExternalDependencies()
GetExternalDependencies ==
    /\ BuildFrame
    /\ buildPc = "external"
    /\ \/ BuildFails("ErrSilent") /\ UNCHANGED deps
       \/ BuildFails("error") /\ UNCHANGED deps
       \/ /\ \E output \in ClasspathFiles(mvnBase) :
                deps' = Split(TrimSpace(output), PathListSeparator)
          /\ buildPc' = "local"
          /\ UNCHANGED buildErr
    /\ UNCHANGED <<adapter, bld, fuzzTests, testIdx, buildDir, executable,
                   seedCorpus, installOut, depsRet, warned, mvnBase, results>>

GetLocalDependenciesIgnoringError ==
    /\ BuildFrame
    /\ buildPc = "local"
    /\ \/ buildErr' = "ErrSilent" /\ UNCHANGED deps
       \/ /\ \E project \in MavenProjects(mvnBase) :
                deps' = deps \o LocalDeps(project)
          /\ UNCHANGED buildErr
    /\ buildPc' = "buildDir"
    /\ UNCHANGED <<adapter, bld, fuzzTests, testIdx, buildDir, executable,
                   seedCorpus, installOut, depsRet, warned, mvnBase, results>>

\* b.getLocalDependencies() and deps = append(deps, localDeps...)
GetLocalDependencies ==
    /\ BuildFrame
    /\ buildPc = "local"
    /\ \/ BuildFails("ErrSilent") /\ UNCHANGED deps
       \/ BuildFails("error") /\ UNCHANGED deps
       \/ /\ \E project \in MavenProjects(mvnBase) :
                deps' = deps \o LocalDeps(project)
          /\ buildPc' = "buildDir"
          /\ UNCHANGED buildErr
    /\ UNCHANGED <<adapter, bld, fuzzTests, testIdx, buildDir, executable,
                   seedCorpus, installOut, depsRet, warned, mvnBase, results>>

\* GetBuildDirectory(b.ProjectDir) and the result of Build
GetBuildDirectory ==
    /\ BuildFrame
    /\ buildPc = "buildDir"
    /\ \/ /\ BuildFails("ErrSilent")
          /\ UNCHANGED <<buildDir, results>>
       \/ /\ buildDir' = JoinPath(mvnBase, <<"target">>)
          /\ results' = {MavenResult(bld, fuzzTests[1], buildDir', deps)}
          /\ buildPc' = "done"
          /\ UNCHANGED buildErr
    /\ UNCHANGED <<adapter, bld, fuzzTests, testIdx, executable, seedCorpus,
                   installOut, depsRet, warned, mvnBase, deps>>

BuildNext ==
    \/ CMakeBuild
    \/ FindFuzzTestExecutable
    \/ FindFuzzTestSeedCorpus
    \/ GetRuntimeDeps
    \/ MavenTestCompile
    \/ GetExternalDependencies
    \/ GetLocalDependencies
    \/ GetBuildDirectory

-----------------------------------------------------------------------------
(***************************************************************************)
(* minijail.NewMinijail and minijail.Cleanup (config-file form)            *)
(*                                                                         *)
(* The host file system is what NewMinijail looks at: the entries of       *)
(* /tmp, the chroot directories made by os.MkdirTemp, and a fixed set of   *)
(* other files and directories.                                            *)
(***************************************************************************)

\* Number of NewMinijail calls in one process.
MaxJails == 2

\* Number of caller-supplied bindings.
MaxCallerBindings == 2

\* The mount lines minijailConfigLines starts with.
InitialConfigLines ==
    << <<"mount=/,/,none,", "20481">>,
       <<"mount=proc,/proc,proc,", "1">>,
       <<"mount=tmpfs,/dev/shm,tmpfs,", "16777222", ",mode=1777">>,
       <<"mount=tmpfs,/tmp,tmpfs,", "16777222", ",mode=1777">>,
       <<"mount=tmpfs,/run,tmpfs,", "16777222", ",mode=1777">>,
       <<"mount=tmpfs,/var/run,tmpfs,", "16777222", ",mode=1777">>,
       <<"logging=stderr">> >>

defaultBindings ==
    << [Source |-> <<"/", "dev", "/", "null">>, Target |-> <<>>,
        Writable |-> ReadWrite],
       [Source |-> <<"/", "dev", "/", "urandom">>, Target |-> <<>>,
        Writable |-> ReadWrite] >>

\* runfiles.Finder.ProcessWrapperPath()
ProcessWrapperPath == <<"/", "rf", "/", "process_wrapper">>

\* runfiles.Finder.Minijail0Path()
Minijail0Path == <<"/", "rf", "/", "minijail0">>

\* The entries /tmp can hold besides chroot directories, in the order
\* os.ReadDir lists them, and what each is.
TmpNames == <<"d1", "d2", "f1">>

TmpEntryOf(name) ==
    [name |-> name, isDir |-> name # "f1", infoOk |-> name # "d2"]

\* The name os.MkdirTemp("", "minijail-chroot-") picks for the n-th chroot.
ChrootName(n) == IF n = 1 THEN "minijail-chroot-1" ELSE
                 IF n = 2 THEN "minijail-chroot-2" ELSE "minijail-chroot-3"

ChrootNames == <<ChrootName(1), ChrootName(2), ChrootName(3)>>

TmpPath(name) == <<"/", "tmp", "/", name>>

\* The files and directories outside /tmp that exist on the host.
HostFiles ==
    {<<"/", "dev", "/", "null">>, <<"/", "dev", "/", "urandom">>,
     <<"/", "T", "/", "exe">>, ProcessWrapperPath, <<"/", "etc", "/", "f">>}

HostDirs == {Cwd, <<"/", "data">>, <<"/", "out">>}

\* fileutil.Exists(path) on a host whose /tmp holds the names in tmp
Exists(path, tmp) ==
    \/ path \in HostFiles \cup HostDirs
    \/ \E name \in tmp : path = TmpPath(name)

\* fileutil.IsDir(path)
IsDir(path, tmp) ==
    \/ path \in HostDirs
    \/ \E name \in tmp : path = TmpPath(name) /\ TmpEntryOf(name).isDir

\* The bindings a caller can pass.
CallerBindings ==
    {[Source |-> <<"/", "data">>, Target |-> <<>>, Writable |-> ReadOnly],
     [Source |-> <<"/", "data">>, Target |-> <<"/", "mnt">>, Writable |-> ReadWrite],
     [Source |-> <<"/", "etc", "/", "f">>, Target |-> <<>>, Writable |-> ReadOnly],
     [Source |-> <<"/", "opt", "/", "none">>, Target |-> <<>>, Writable |-> ReadOnly]}

MinijailOptions ==
    [Args0 : {<<"/", "L", "/", "exe">>, <<"/", "?", "/", "exe">>},
     Bindings : SeqsUpTo(CallerBindings, MaxCallerBindings),
     OutputDir : {<<>>, <<"/", "out">>}]

\* os.ReadDir("/tmp"): the entries sorted by name
RECURSIVE ReadDirNames(_, _)
ReadDirNames(names, tmp) ==
    IF names = <<>> THEN <<>>
    ELSE (IF Head(names) \in tmp THEN <<Head(names)>> ELSE <<>>)
         \o ReadDirNames(Tail(names), tmp)

ReadDirTmp(tmp) == ReadDirNames(TmpNames \o ChrootNames, tmp)

\* The loop over the entries of /tmp: the bindings for its subdirectories.
RECURSIVE TmpBindings(_, _)
TmpBindings(entries, chroot) ==
    IF entries = <<>> THEN <<>>
    ELSE
        LET name == Head(entries)
            entry == IF name \in Range(ChrootNames)
                     THEN [name |-> name, isDir |-> TRUE, infoOk |-> TRUE]
                     ELSE TmpEntryOf(name)
        IN  (IF ~entry.isDir \/ ~entry.infoOk \/ name = chroot THEN <<>>
             ELSE << [Source |-> <<"/", "tmp">> \o <<name>>, Target |-> <<>>,
                      Writable |-> ReadOnly] >>)
            \o TmpBindings(Tail(entries), chroot)

\* The bindings appended after the ones for /tmp.
OtherBindings(opts, workdir, path) ==
    opts.Bindings \o defaultBindings
    \o (IF opts.OutputDir # <<>>
        THEN << [Source |-> opts.OutputDir, Target |-> <<>>,
                 Writable |-> ReadWrite] >>
        ELSE <<>>)
    \o << [Source |-> workdir, Target |-> <<>>, Writable |-> ReadWrite],
          [Source |-> path, Target |-> <<>>, Writable |-> ReadOnly],
          [Source |-> ProcessWrapperPath, Target |-> <<>>,
           Writable |-> ReadOnly] >>

\* if binding.Target == "" { binding.Target = binding.Source }
WithTarget(b) == [b EXCEPT !.Target = TargetOrSource(b)]

\* The loop without its check of the source: no binding is skipped.
SkipBindingNever(b, tmp) == FALSE

\* The round of the loop "Add bindings to the minijail config" for one
\* binding skips it: its source does not exist.
SkipBinding(b, tmp) == ~Exists(b.Source, tmp)

\* The config lines the loop appends for the bindings bs.
RECURSIVE BindMountLines(_, _)
BindMountLines(bs, tmp) ==
    IF bs = <<>> THEN <<>>
    ELSE (IF SkipBinding(Head(bs), tmp) THEN <<>>
          ELSE << <<"bind-mount=">> \o BindingString(WithTarget(Head(bs))) >>)
         \o BindMountLines(Tail(bs), tmp)

\* The destinations the loop creates in the chroot for the bindings bs.
BindDestinations(bs, tmp) ==
    {[path |-> WithTarget(bs[i]).Target, isDir |-> IsDir(bs[i].Source, tmp)] :
        i \in {j \in 1..Len(bs) : ~SkipBinding(bs[j], tmp)}}

NoMinijailOptions == [Args0 |-> <<>>, Bindings |-> <<>>, OutputDir |-> <<>>]

MjIdle ==
    /\ mjPc = "idle"
    /\ mjOpts = NoMinijailOptions
    /\ hostTmp = {}
    /\ chrootDir = ""
    /\ chrootFs = {}
    /\ mjPath = <<>>
    /\ mjBindings = <<>>
    /\ minijailConfigLines = InitialConfigLines
    /\ configFile = <<>>
    /\ mjErr = "nil"
    /\ jails = 0

MjInit ==
    /\ mjPc = "start"
    /\ mjOpts \in MinijailOptions
    /\ hostTmp \in SUBSET Range(TmpNames)
    /\ chrootDir = ""
    /\ chrootFs = {}
    /\ mjPath = <<>>
    /\ mjBindings = <<>>
    /\ minijailConfigLines = InitialConfigLines
    /\ configFile = <<>>
    /\ mjErr = "nil"
    /\ jails = 0

\* return nil, err: the caller gets no minijail to clean up
MjFails ==
    /\ mjErr' = "error"
    /\ mjPc' = "start"

\* NewMinijail(opts): filepath.EvalSymlinks(opts.Args[0])
MjEvalSymlinks ==
    /\ MjFrame
    /\ mjPc = "start"
    /\ jails < MaxJails
    /\ jails' = jails + 1
    /\ chrootDir' = ""
    /\ chrootFs' = {}
    /\ mjBindings' = <<>>
    /\ IF PathExists(mjOpts.Args0)
       THEN /\ mjPath' = EvalSymlinks(mjOpts.Args0)
            /\ mjErr' = "nil"
            /\ mjPc' = "mkdirTemp"
       ELSE MjFails /\ mjPath' = <<>>
    /\ UNCHANGED <<mjOpts, hostTmp, minijailConfigLines, configFile>>

\* os.MkdirTemp("", "minijail-chroot-")
MjMkdirTemp ==
    /\ MjFrame
    /\ mjPc = "mkdirTemp"
    /\ \/ MjFails /\ UNCHANGED <<chrootDir, hostTmp>>
       \/ /\ chrootDir' = ChrootName(jails)
          /\ hostTmp' = hostTmp \cup {chrootDir'}
          /\ mjPc' = "createDirs"
          /\ UNCHANGED mjErr
    /\ UNCHANGED <<mjOpts, chrootFs, mjPath, mjBindings, minijailConfigLines,
                   configFile, jails>>

\* The directories /proc, /tmp and /dev/shm of the chroot, and
\* runfiles.Finder.Minijail0Path()
MjCreateDirs ==
    /\ MjFrame
    /\ mjPc = "createDirs"
    /\ \/ MjFails /\ UNCHANGED chrootFs
       \/ /\ chrootFs' = {[path |-> <<"/", "proc">>, isDir |-> TRUE],
                          [path |-> <<"/", "tmp">>, isDir |-> TRUE]}
          /\ MjFails
       \/ /\ chrootFs' = {[path |-> <<"/", "proc">>, isDir |-> TRUE],
                          [path |-> <<"/", "tmp">>, isDir |-> TRUE],
                          [path |-> <<"/", "dev", "/", "shm">>, isDir |-> TRUE]}
          /\ \/ MjFails
             \/ mjPc' = "tmpBindings" /\ UNCHANGED mjErr
    /\ UNCHANGED <<mjOpts, hostTmp, chrootDir, mjPath, mjBindings,
                   minijailConfigLines, configFile, jails>>

\* os.ReadDir("/tmp"), os.Stat(chrootDir) and the loop over the entries
MjTmpBindings ==
    /\ MjFrame
    /\ mjPc = "tmpBindings"
    /\ \/ MjFails /\ UNCHANGED mjBindings
       \/ /\ mjBindings' = TmpBindings(ReadDirTmp(hostTmp), chrootDir)
          /\ mjPc' = "otherBindings"
          /\ UNCHANGED mjErr
    /\ UNCHANGED <<mjOpts, hostTmp, chrootDir, chrootFs, mjPath,
                   minijailConfigLines, configFile, jails>>

\* The bindings of the caller, the default ones and the ones for the output
\* directory, the working directory, the executable and the process wrapper
MjOtherBindings ==
    /\ MjFrame
    /\ mjPc = "otherBindings"
    /\ \/ MjFails /\ UNCHANGED mjBindings
       \/ /\ mjBindings' = mjBindings \o OtherBindings(mjOpts, Cwd, mjPath)
          /\ mjPc' = "addBindings"
          /\ UNCHANGED mjErr
    /\ UNCHANGED <<mjOpts, hostTmp, chrootDir, chrootFs, mjPath,
                   minijailConfigLines, configFile, jails>>

\* The loop "Add bindings to the minijail config": it ends after the last
\* binding, or with an error when the destination of binding k cannot be
\* created
MjAddBindings ==
    /\ MjFrame
    /\ mjPc = "addBindings"
    /\ \/ /\ minijailConfigLines' =
                minijailConfigLines \o BindMountLines(mjBindings, hostTmp)
          /\ chrootFs' = chrootFs \cup BindDestinations(mjBindings, hostTmp)
          /\ mjPc' = "writeConfig"
          /\ UNCHANGED mjErr
       \/ \E k \in {j \in 1..Len(mjBindings) : ~SkipBinding(mjBindings[j], hostTmp)} :
          LET done == SubSeq(mjBindings, 1, k - 1) IN
          /\ minijailConfigLines' =
                minijailConfigLines \o BindMountLines(done, hostTmp)
          /\ chrootFs' = chrootFs \cup BindDestinations(done, hostTmp)
          /\ MjFails
    /\ UNCHANGED <<mjOpts, hostTmp, chrootDir, mjPath, mjBindings, configFile,
                   jails>>

\* os.WriteFile(configFile, ...) and the return of NewMinijail
MjWriteConfig ==
    /\ MjFrame
    /\ mjPc = "writeConfig"
    /\ \/ MjFails /\ UNCHANGED configFile
       \/ /\ configFile' = << <<"% minijail-config-file v0">> >>
                           \o minijailConfigLines
          /\ mjPc' = "live"
          /\ UNCHANGED mjErr
    /\ UNCHANGED <<mjOpts, hostTmp, chrootDir, chrootFs, mjPath, mjBindings,
                   minijailConfigLines, jails>>

\* (m *minijail) Cleanup(): fileutil.Cleanup(m.chrootDir)
Cleanup ==
    /\ MjFrame
    /\ mjPc = "live"
    /\ hostTmp' = hostTmp \ {chrootDir}
    /\ chrootFs' = {}
    /\ mjPc' = "start"
    /\ UNCHANGED <<mjOpts, chrootDir, mjPath, mjBindings, minijailConfigLines,
                   configFile, mjErr, jails>>

MjNext ==
    \/ MjEvalSymlinks
    \/ MjMkdirTemp
    \/ MjCreateDirs
    \/ MjTmpBindings
    \/ MjOtherBindings
    \/ MjAddBindings
    \/ MjWriteConfig
    \/ Cleanup

-----------------------------------------------------------------------------
(***************************************************************************)
(* runner.SetCommonASANOptions and runner.SetCommonUBSANOptions            *)
(***************************************************************************)

\* Number of options in a sanitizer options variable of the user.
MaxUserOptions == 2

SanitizerErrorExitCode == <<"78">>

\* sanitizerOptionsColorValue()
sanitizerOptionsColorValue(tty) ==
    IF tty THEN <<"always">> ELSE <<"never">>

\* defaultSanitizerOptions
defaultSanitizerOptions(tty) ==
    << <<<<"color">>, sanitizerOptionsColorValue(tty)>> >>

\* The options a user can have set in ASAN_OPTIONS or UBSAN_OPTIONS.
UserOptions ==
    {<<"exitcode", "=", "1">>, <<"log_path", "=", "/f">>,
     <<"color", "=", "auto">>, <<"print_stacktrace", "=", "0">>,
     <<"detect_leaks", "=", "0">>}

UserOptionStrings ==
    {Join(o, <<":">>) : o \in SeqsUpTo(UserOptions, MaxUserOptions)}

\* The orders in which a range loop can visit the entries of a map.
MapOrders(entries) ==
    {m \in [1..Cardinality(entries) -> entries] :
        \A i, j \in 1..Cardinality(entries) : i # j => m[i] # m[j]}

\* envutil.Getenv(env, name)
Getenv(env, name) == env[name]

\* envutil.Setenv(env, name, value)
Setenv(env, name, value) == [env EXCEPT ![name] = value]

SenvIdle ==
    /\ senvPc = "idle"
    /\ isTerminal = FALSE
    /\ userEnv = [ASAN_OPTIONS |-> <<>>, UBSAN_OPTIONS |-> <<>>]
    /\ senvEnv = [ASAN_OPTIONS |-> <<>>, UBSAN_OPTIONS |-> <<>>]

SenvInit ==
    /\ senvPc = "asan"
    /\ isTerminal \in BOOLEAN
    /\ userEnv \in [{"ASAN_OPTIONS", "UBSAN_OPTIONS"} -> UserOptionStrings]
    /\ senvEnv = userEnv

\* SetCommonASANOptions(env), with SetASANOptions
SetCommonASANOptions ==
    /\ SenvFrame
    /\ senvPc = "asan"
    /\ \E overrideOptions \in
            MapOrders({<<<<"exitcode">>, SanitizerErrorExitCode>>,
                       <<<<"log_path">>, <<"stderr">>>>}) :
        senvEnv' = Setenv(senvEnv, "ASAN_OPTIONS",
                          SetSanitizerOptions(Getenv(senvEnv, "ASAN_OPTIONS"),
                                              defaultSanitizerOptions(isTerminal),
                                              overrideOptions))
    /\ senvPc' = "ubsan"
    /\ UNCHANGED <<isTerminal, userEnv>>

\* SetCommonUBSANOptions(env)
SetCommonUBSANOptions ==
    /\ SenvFrame
    /\ senvPc = "ubsan"
    /\ \E defaultOptions \in
            MapOrders(Range(defaultSanitizerOptions(isTerminal))
                      \cup {<<<<"print_stacktrace">>, <<"1">>>>}) :
        senvEnv' = Setenv(senvEnv, "UBSAN_OPTIONS",
                          SetSanitizerOptions(Getenv(senvEnv, "UBSAN_OPTIONS"),
                                              defaultOptions,
                                              << <<<<"log_path">>, <<"stderr">>>> >>))
    /\ senvPc' = "done"
    /\ UNCHANGED <<isTerminal, userEnv>>

SenvNext ==
    \/ SetCommonASANOptions
    \/ SetCommonUBSANOptions

-----------------------------------------------------------------------------
(***************************************************************************)
(* bundler: the env list of a fuzzer and jazzerBundler.assembleArtifacts   *)
(*                                                                         *)
(* A value of --env is a sequence whose elements are a key, "=" and a      *)
(* value; an archive path is a sequence of names separated by "/".         *)
(***************************************************************************)

\* Number of --env flags of one bundle command.
MaxEnvFlags == 3

\* Number of runtime dependencies of one build result.
MaxRuntimeDeps == 2

\* Number of build results handed to one bundle.
MaxBuildResults == 2

\* The values --env can be given.
EnvFlags ==
    {<<"FOO", "=", "foo">>, <<"BAR">>, <<"NO_SUCH_VARIABLE">>}

\* The environments of the caller: a variable is set to a value or unset,
\* and NO_SUCH_VARIABLE is unset.
CallerEnvs ==
    {env \in [{"BAR", "NO_SUCH_VARIABLE"} ->
                {[set |-> FALSE, val |-> <<>>],
                 [set |-> TRUE, val |-> <<"bar">>]}] :
        ~env["NO_SUCH_VARIABLE"].set}

\* The names of the fuzz tests.
FuzzTestNames ==
    <<"com.example.FuzzTest", "com.example.AnotherFuzzTest",
      "com.example.ThirdFuzzTest">>

\* The runtime dependencies a build can report: two jars with the same
\* content and a directory of class files.
RuntimeDepPaths ==
    {<<"/", "p", "/", "lib", "/", "mylib.jar">>,
     <<"/", "p", "/", "lib", "/", "copy.jar">>,
     <<"/", "p", "/", "classes">>}

\* The paths below a runtime dependency, itself included.
SubPaths(dep) ==
    IF Last(dep) = "classes"
    THEN {<<>>, <<"/", "com">>, <<"/", "com", "/", "MyClass.class">>}
    ELSE {<<>>}

\* What a file or directory on the host contains.
ContentOf(path) ==
    IF Last(path) \in {"mylib.jar", "copy.jar"} THEN "jar bytes"
    ELSE IF Last(path) = "classes" THEN "class files"
    ELSE "other bytes"

\* The content hash of a file, as the name it would give an archive entry.
HashOf(content) ==
    IF content = "jar bytes" THEN "3a7bd3e2"
    ELSE IF content = "class files" THEN "9f86d081"
    ELSE "e3b0c442"

\* The build results of a bundle: the i-th has the i-th name.
BuildResults ==
    UNION {[1..n -> SeqsUpTo(RuntimeDepPaths, MaxRuntimeDeps)] :
                n \in 1..MaxBuildResults}

\* The entry of the env list for one --env flag.
EnvEntry(flag, env) ==
    IF Index(flag, "=") # 0 THEN <<flag>>
    ELSE IF env[flag[1]].set THEN <<<<flag[1], "=">> \o env[flag[1]].val>>
    ELSE <<>>

\* The env list of the options, from the --env flags.
RECURSIVE ResolveEnv(_, _)
ResolveEnv(flags, env) ==
    IF flags = <<>> THEN <<>>
    ELSE EnvEntry(Head(flags), env) \o ResolveEnv(Tail(flags), env)

FuzzerEnvAlways(engine, optsEnv) ==
    Append(optsEnv, <<"NO_CIFUZZ", "=", "1">>)

\* The env list stored for a fuzzer of the engine.
FuzzerEnv(engine, optsEnv) ==
    IF engine = "LIBFUZZER"
    THEN Append(optsEnv, <<"NO_CIFUZZ", "=", "1">>)
    ELSE optsEnv

\* opts.tempDir
tempDir == <<"/", "tmp", "/", "bundle">>

\* The archive path of a fuzzer's manifest jar.
ManifestJar(name) == <<name, "/", "manifest.jar">>

\* The archive path of a runtime dependency.
ArchivePath(dep) == <<"runtime_deps", "/", Last(dep)>>

\* The file map entries of one runtime dependency: archive path and source.
DepEntries(dep) == {<<ArchivePath(dep) \o s, dep \o s>> : s \in SubPaths(dep)}

JazzerFuzzerManifestLast(name, runtimeDeps, optsEnv) ==
    [Name |-> name, Engine |-> "JAVA_LIBFUZZER",
     RuntimePaths |->
        [k \in 1..Len(runtimeDeps) |-> ArchivePath(runtimeDeps[k])]
        \o <<ManifestJar(name)>>,
     Env |-> FuzzerEnv("JAVA_LIBFUZZER", optsEnv)]

\* The fuzzer assembleArtifacts makes of one build result.
JazzerFuzzer(name, runtimeDeps, optsEnv) ==
    [Name |-> name, Engine |-> "JAVA_LIBFUZZER",
     RuntimePaths |->
        <<ManifestJar(name)>>
        \o [k \in 1..Len(runtimeDeps) |-> ArchivePath(runtimeDeps[k])],
     Env |-> FuzzerEnv("JAVA_LIBFUZZER", optsEnv)]

\* The file map entries assembleArtifacts makes of one build result.
JazzerFiles(name, runtimeDeps) ==
    {<<ManifestJar(name), tempDir \o <<"/">> \o ManifestJar(name)>>}
    \cup UNION {DepEntries(runtimeDeps[k]) : k \in 1..Len(runtimeDeps)}

\* The fuzzer of a native build result.
LibFuzzerFuzzer(name, optsEnv) ==
    [Name |-> name, Engine |-> "LIBFUZZER", RuntimePaths |-> <<>>,
     Env |-> FuzzerEnv("LIBFUZZER", optsEnv)]

BundleIdle ==
    /\ bundlePc = "idle"
    /\ envFlags = <<>>
    /\ callerEnv = [k \in {"BAR", "NO_SUCH_VARIABLE"} |->
                        [set |-> FALSE, val |-> <<>>]]
    /\ buildResults = <<>>
    /\ fuzzers = <<>>
    /\ fileMap = {}

BundleInit == BundleIdle

\* cifuzz bundle for a CMake project: the manifest entries only, the files
\* of a native bundle are left out.
BundleLibFuzzer ==
    /\ BundleFrame
    /\ bundlePc = "idle"
    /\ \E flags \in SeqsUpTo(EnvFlags, MaxEnvFlags), env \in CallerEnvs,
          n \in 1..MaxBuildResults :
        /\ envFlags' = flags
        /\ callerEnv' = env
        /\ buildResults' = [i \in 1..n |-> <<>>]
        /\ fuzzers' = [i \in 1..n |->
                          LibFuzzerFuzzer(FuzzTestNames[i], ResolveEnv(flags, env))]
    /\ fileMap' = {}
    /\ bundlePc' = "done"

\* cifuzz bundle for a Maven project: b.assembleArtifacts(buildResults)
BundleJazzer ==
    /\ BundleFrame
    /\ bundlePc = "idle"
    /\ \E flags \in SeqsUpTo(EnvFlags, MaxEnvFlags), env \in CallerEnvs,
          res \in BuildResults :
        /\ envFlags' = flags
        /\ callerEnv' = env
        /\ buildResults' = res
        /\ fuzzers' = [i \in 1..Len(res) |->
                          JazzerFuzzer(FuzzTestNames[i], res[i],
                                       ResolveEnv(flags, env))]
        /\ fileMap' = UNION {JazzerFiles(FuzzTestNames[i], res[i]) :
                                i \in 1..Len(res)}
    /\ bundlePc' = "done"

\* The command returns; the next one starts afresh.
BundleDone ==
    /\ BundleFrame
    /\ bundlePc = "done"
    /\ bundlePc' = "idle"
    /\ envFlags' = <<>>
    /\ callerEnv' = [k \in {"BAR", "NO_SUCH_VARIABLE"} |->
                        [set |-> FALSE, val |-> <<>>]]
    /\ buildResults' = <<>>
    /\ fuzzers' = <<>>
    /\ fileMap' = {}

BundleNext ==
    \/ BundleLibFuzzer
    \/ BundleJazzer
    \/ BundleDone

-----------------------------------------------------------------------------
(***************************************************************************)
(* The build tool commands of cmake.Builder and maven.Builder: where the   *)
(* output of the tool goes                                                 *)
(*                                                                         *)
(* A byte of tool output is <<command, stream, position>>.                 *)
(***************************************************************************)

\* Number of bytes a tool writes to one stream in one invocation.
MaxToolBytes == 2

\* What a tool can write to a stream in one invocation.
ToolBytes(name, stream) ==
    {[k \in 1..n |-> <<name, stream, k>>] : n \in 0..MaxToolBytes}

\* The orders in which the writes to two streams can reach one writer.
RECURSIVE Interleavings(_, _)
Interleavings(a, b) ==
    IF a = <<>> THEN {b}
    ELSE IF b = <<>> THEN {a}
    ELSE {<<Head(a)>> \o s : s \in Interleavings(Tail(a), b)}
         \cup {<<Head(b)>> \o s : s \in Interleavings(a, Tail(b))}

\* cmd.Stdout and cmd.Stderr of the commands of cmake.Builder.  cmd.Output()
\* collects stdout in a buffer of its own and, cmd.Stderr being nil, keeps
\* stderr for the ExitError only.
CMakeWiring(name) ==
    CASE name = "configure" -> [Stdout |-> "b.Stderr", Stderr |-> "b.Stderr"]
      [] name = "build" -> [Stdout |-> "b.Stderr", Stderr |-> "b.Stderr"]
      [] name = "install" -> [Stdout |-> "output", Stderr |-> "ExitError"]

\* The stdout and stderr arguments of runMaven, and cmd.Output() in
\* GetBuildDirectory.
MavenWiring(name) ==
    CASE name = "test-compile" ->
            [Stdout |-> "b.Stderr", Stderr |-> "b.Stderr"]
      [] name = "dependency:build-classpath" ->
            [Stdout |-> "b.Stderr", Stderr |-> "b.Stderr"]
      [] name = "help:evaluate project" ->
            [Stdout |-> "buffer", Stderr |-> "buffer"]
      [] name = "help:evaluate project.build.directory" ->
            [Stdout |-> "output", Stderr |-> "ExitError"]

CmdWiring(name) ==
    IF name \in {"configure", "build", "install"}
    THEN CMakeWiring(name)
    ELSE MavenWiring(name)

\* exec.Cmd: what can arrive at a writer when the tool writes out and err.
Written(dest, wiring, out, err) ==
    IF wiring.Stdout = dest /\ wiring.Stderr = dest
    THEN Interleavings(out, err)
    ELSE IF wiring.Stdout = dest THEN {out}
    ELSE IF wiring.Stderr = dest THEN {err}
    ELSE {<<>>}

\* log.Error(cmdutils.WrapExecError(err, cmd)): the stderr kept in an
\* ExitError may or may not be printed with the error.
Logged(wiring, ok, err) ==
    IF ~ok /\ wiring.Stderr = "ExitError" THEN {<<>>, err} ELSE {<<>>}

\* The commands of a build, in the order the adapter runs them.
ToolCommands(a) ==
    IF a = "cmake" THEN <<"configure", "build", "install">>
    ELSE <<"test-compile", "dependency:build-classpath",
           "help:evaluate project",
           "help:evaluate project.build.directory">>

IoIdle ==
    /\ ioAdapter = "none"
    /\ ioPc = 0
    /\ toolRuns = <<>>
    /\ bStdout = <<>>
    /\ bStderr = <<>>
    /\ captured = <<>>

IoInit ==
    /\ ioAdapter \in {"cmake", "maven"}
    /\ ioPc = 1
    /\ toolRuns = <<>>
    /\ bStdout = <<>>
    /\ bStderr = <<>>
    /\ captured = <<>>

\* One command of the adapter: the tool writes and exits, the adapter goes
\* on to its next command or returns ErrSilent.
RunTool(a, name) ==
    /\ IoFrame
    /\ ioAdapter = a
    /\ ioPc \in 1..Len(ToolCommands(a))
    /\ ToolCommands(a)[ioPc] = name
    /\ \E out \in ToolBytes(name, "stdout"), err \in ToolBytes(name, "stderr"),
          ok \in BOOLEAN :
        /\ toolRuns' = Append(toolRuns, [cmd |-> name, stdout |-> out,
                                         stderr |-> err, ok |-> ok])
        /\ \E w \in Written("b.Stderr", CmdWiring(name), out, err),
              l \in Logged(CmdWiring(name), ok, err) :
                bStderr' = bStderr \o w \o l
        /\ \E w \in Written("b.Stdout", CmdWiring(name), out, err) :
                bStdout' = bStdout \o w
        /\ \E buf \in Written("buffer", CmdWiring(name), out, err)
                        \cup Written("output", CmdWiring(name), out, err) :
                captured' = buf
        /\ ioPc' = IF ok THEN ioPc + 1 ELSE 0
    /\ UNCHANGED ioAdapter

\* cmake.Builder.Configure
RunConfigure == RunTool("cmake", "configure")

\* cmake.Builder.Build
RunCMakeBuild == RunTool("cmake", "build")

\* cmake.Builder.getRuntimeDeps
RunCMakeInstall == RunTool("cmake", "install")

\* maven.Builder.Build
RunTestCompile == RunTool("maven", "test-compile")

\* maven.Builder.getExternalDependencies
RunBuildClasspath == RunTool("maven", "dependency:build-classpath")

\* maven.Builder.getLocalDependencies
RunEvaluateProject == RunTool("maven", "help:evaluate project")

\* maven.GetBuildDirectory
RunEvaluateBuildDirectory ==
    RunTool("maven", "help:evaluate project.build.directory")

IoNext ==
    \/ RunConfigure
    \/ RunCMakeBuild
    \/ RunCMakeInstall
    \/ RunTestCompile
    \/ RunBuildClasspath
    \/ RunEvaluateProject
    \/ RunEvaluateBuildDirectory

-----------------------------------------------------------------------------
(***************************************************************************)
(* process_wrapper: main, and the command line NewMinijail hands to it     *)
(*                                                                         *)
(* An argument is one string; argv[i] of the C program is pwArgv[i + 1].   *)
(***************************************************************************)

\* Number of environment entries in Options.Env.
MaxWrapperEnv == 2

\* Number of arguments of the target.
MaxTargetArgs == 2

\* stringutil.JoinSlices(sep, a, b): the slices with sep between them.
JoinSlices(sep, a, b) == a \o <<sep>> \o b

\* processWrapperArgs of NewMinijail: the config-file form passes the
\* wrapper and the working directory, the flag form adds opts.Env.
processWrapperArgs(form, workdir, env) ==
    IF form = "config" THEN <<"/process_wrapper", workdir>>
    ELSE <<"/process_wrapper", workdir>> \o env

\* The part of minijail.Args after the arguments of minijail0.
WrapperCommandLine(form, workdir, env, args) ==
    JoinSlices("--", processWrapperArgs(form, workdir, env), args)

\* The directories chdir can enter.
WrapperDirs == {"/w"}

\* The files execv can execute.
WrapperExecutables == {"/bin/target"}

NoExec == [path |-> "none", argv |-> <<>>]

\* argv[i] of the C program, NULL at and after argc.
Argv(argv, i) == IF i + 1 <= Len(argv) THEN argv[i + 1] ELSE "NULL"

\* argv + 3
ArgvFrom3(argv) == SubSeq(argv, 4, Len(argv))

PwIdle ==
    /\ pwPc = "idle"
    /\ pwLayout = [form |-> "config", cwd |-> "/w", env |-> <<>>,
                   args |-> <<>>]
    /\ pwArgv = <<>>
    /\ pwCwd = "/"
    /\ pwExec = NoExec
    /\ pwExit = 0

\* minijail0 starts the wrapper with the command line of NewMinijail.
PwInit ==
    /\ pwPc = "main"
    /\ pwLayout \in
        {l \in [form : {"config", "flags"}, cwd : {"/w", "/gone"},
                env : SeqsUpTo({"A=1", "B=2"}, MaxWrapperEnv),
                args : {<<"/bin/target">> \o a :
                            a \in SeqsUpTo({"-runs=0", "--"}, MaxTargetArgs)}] :
            l.form = "config" => l.env = <<>>}
    /\ pwArgv = WrapperCommandLine(pwLayout.form, pwLayout.cwd, pwLayout.env,
                                   pwLayout.args)
    /\ pwCwd = "/"
    /\ pwExec = NoExec
    /\ pwExit = 0

\* main up to chdir(argv[1])
WrapperChdir ==
    /\ PwFrame
    /\ pwPc = "main"
    /\ IF Len(pwArgv) < 3
       THEN pwPc' = "exited" /\ pwExit' = 1 /\ UNCHANGED pwCwd
       ELSE IF Argv(pwArgv, 1) \notin WrapperDirs
       THEN pwPc' = "exited" /\ pwExit' = 1 /\ UNCHANGED pwCwd
       ELSE pwPc' = "execv" /\ pwCwd' = Argv(pwArgv, 1) /\ UNCHANGED pwExit
    /\ UNCHANGED <<pwLayout, pwArgv, pwExec>>

\* execv(argv[3], argv + 3)
WrapperExecv ==
    /\ PwFrame
    /\ pwPc = "execv"
    /\ IF Argv(pwArgv, 3) \in WrapperExecutables
       THEN /\ pwExec' = [path |-> Argv(pwArgv, 3), argv |-> ArgvFrom3(pwArgv)]
            /\ pwPc' = "target"
            /\ UNCHANGED pwExit
       ELSE /\ pwPc' = "exited"
            /\ pwExit' = 1
            /\ UNCHANGED pwExec
    /\ UNCHANGED <<pwLayout, pwArgv, pwCwd>>

PwNext ==
    \/ WrapperChdir
    \/ WrapperExecv

-----------------------------------------------------------------------------
(***************************************************************************)
(* runCmd.run: the steps of the run command                                *)
(***************************************************************************)

\* c.opts.BuildSystem: one config.BuildSystem* or another string.
CmdBuildSystems == BuildSystems \cup {"unknown"}

\* The outcomes of a step: it succeeds, fails, or (the runner only) fails
\* with an *exec.ExitError.
StepOutcomes(step) ==
    IF step = "runFuzzTest" THEN {"ok", "error", "ExitError"}
    ELSE {"ok", "error"}

CmdNil == [step |-> "none", kind |-> "nil", couldBeSandbox |-> FALSE]

\* The error a failed step returns.
StepError(step, outcome) ==
    [step |-> step, kind |-> outcome, couldBeSandbox |-> FALSE]

\* cmdutils.WrapCouldBeSandboxError(err)
WrapCouldBeSandboxError(err) == [err EXCEPT !.couldBeSandbox = TRUE]

\* The error run returns when runFuzzTest failed.
RunFuzzTestError(outcome, useSandbox) ==
    IF outcome = "ExitError" /\ useSandbox
    THEN WrapCouldBeSandboxError(StepError("runFuzzTest", outcome))
    ELSE StepError("runFuzzTest", outcome)

\* The outcomes of buildFuzzTest: no case of the switch matches an unknown
\* build system.
BuildOutcomes(buildSystem) ==
    IF buildSystem = "unknown" THEN {"error"} ELSE {"ok", "error"}

AfterBuildNeverOnly(buildOnly) == "NewReportHandler"

\* if c.opts.BuildOnly { return nil }
AfterBuild(buildOnly) ==
    IF buildOnly THEN "returned" ELSE "NewReportHandler"

CmdIdle ==
    /\ cmdPc = "idle"
    /\ cmdOpts = [BuildOnly |-> FALSE, UseSandbox |-> FALSE,
                  BuildSystem |-> "cmake", Prerelease |-> FALSE]
    /\ cmdSteps = <<>>
    /\ cmdErr = CmdNil

CmdInit ==
    /\ cmdPc = "checkDependencies"
    /\ cmdOpts \in [BuildOnly : BOOLEAN, UseSandbox : BOOLEAN,
                    BuildSystem : CmdBuildSystems, Prerelease : BOOLEAN]
    /\ cmdSteps = <<>>
    /\ cmdErr = CmdNil

\* One step of run: it is logged with its outcome; a failure makes run
\* return the error, a success leads to the next step.
CmdStep(step, outcome, next, err) ==
    /\ CmdFrame
    /\ cmdPc = step
    /\ cmdSteps' = Append(cmdSteps, [step |-> step, outcome |-> outcome])
    /\ IF outcome = "ok"
       THEN cmdPc' = next /\ UNCHANGED cmdErr
       ELSE cmdPc' = "returned" /\ cmdErr' = err
    /\ UNCHANGED cmdOpts

\* err := c.checkDependencies()
CmdCheckDependencies ==
    \E outcome \in StepOutcomes("checkDependencies") :
        CmdStep("checkDependencies", outcome,
                IF cmdOpts.Prerelease THEN "setupSync" ELSE "MkdirTemp",
                StepError("checkDependencies", outcome))

\* err = c.setupSync()
CmdSetupSync ==
    \E outcome \in StepOutcomes("setupSync") :
        CmdStep("setupSync", outcome, "MkdirTemp",
                StepError("setupSync", outcome))

\* c.tempDir, err = os.MkdirTemp("", "cifuzz-run-")
CmdMkdirTemp ==
    \E outcome \in StepOutcomes("MkdirTemp") :
        CmdStep("MkdirTemp", outcome, "buildFuzzTest",
                StepError("MkdirTemp", outcome))

\* buildResult, err := c.buildFuzzTest()
CmdBuildFuzzTest ==
    \E outcome \in BuildOutcomes(cmdOpts.BuildSystem) :
        CmdStep("buildFuzzTest", outcome, AfterBuild(cmdOpts.BuildOnly),
                StepError("buildFuzzTest", outcome))

\* c.reportHandler, err = report_handler.NewReportHandler(...)
CmdNewReportHandler ==
    \E outcome \in StepOutcomes("NewReportHandler") :
        CmdStep("NewReportHandler", outcome, "runFuzzTest",
                StepError("NewReportHandler", outcome))

\* err = c.runFuzzTest(buildResult)
CmdRunFuzzTest ==
    \E outcome \in StepOutcomes("runFuzzTest") :
        CmdStep("runFuzzTest", outcome, "printFinalMetrics",
                RunFuzzTestError(outcome, cmdOpts.UseSandbox))

\* err = c.printFinalMetrics(...)
CmdPrintFinalMetrics ==
    \E outcome \in StepOutcomes("printFinalMetrics") :
        CmdStep("printFinalMetrics", outcome, "returned",
                StepError("printFinalMetrics", outcome))

CmdNext ==
    \/ CmdCheckDependencies
    \/ CmdSetupSync
    \/ CmdMkdirTemp
    \/ CmdBuildFuzzTest
    \/ CmdNewReportHandler
    \/ CmdRunFuzzTest
    \/ CmdPrintFinalMetrics

-----------------------------------------------------------------------------
(***************************************************************************)
(* AddMinijailBindingToEnv and the bindings NewMinijail reads back         *)
(***************************************************************************)

\* Number of AddMinijailBindingToEnv calls.
MaxEnvBindings == 2

BindingsEnvVarName == "CIFUZZ_MINIJAIL_BINDINGS"

\* The bindings the adapters pass: a source path is not empty and may hold
\* ',' and ':'.
EnvBindings ==
    [Source : SeqsUpTo({"a", ",", ":"}, MaxPathLen) \ {<<>>},
     Target : {<<>>, <<"t">>},
     Writable : {ReadOnly, ReadWrite}]

\* The environment before the first call: the variable is unset.
InitialEnv == [name \in {BindingsEnvVarName, "PATH"} |->
                  IF name = "PATH" THEN <<"p">> ELSE <<>>]

NotParsed == [ok |-> TRUE, bindings |-> <<>>]

\* The loop of NewMinijail over the elements of the variable's value:
\* [ok, bindings].
RECURSIVE ParseBindings(_)
ParseBindings(elems) ==
    IF elems = <<>> THEN [ok |-> TRUE, bindings |-> <<>>]
    ELSE IF Head(elems) = <<>> THEN ParseBindings(Tail(elems))
    ELSE LET first == BindingFromString(Head(elems))
             rest  == ParseBindings(Tail(elems))
         IN  IF first.ok /\ rest.ok
             THEN [ok |-> TRUE, bindings |-> <<first.binding>> \o rest.bindings]
             ELSE [ok |-> FALSE, bindings |-> <<>>]

BenvIdle ==
    /\ benvPc = "idle"
    /\ benvEnv = InitialEnv
    /\ benvCalls = <<>>
    /\ benvParsed = NotParsed

BenvInit ==
    /\ benvPc = "adding"
    /\ benvEnv = InitialEnv
    /\ benvCalls = <<>>
    /\ benvParsed = NotParsed

\* env, err = AddMinijailBindingToEnv(env, b)
AddMinijailBindingToEnv ==
    /\ BenvFrame
    /\ benvPc = "adding"
    /\ Len(benvCalls) < MaxEnvBindings
    /\ \E b \in EnvBindings :
          LET str == BindingString([b EXCEPT !.Target = TargetOrSource(b)])
              bindings == Getenv(benvEnv, BindingsEnvVarName)
          IN  /\ benvEnv' = Setenv(benvEnv, BindingsEnvVarName,
                                   IF bindings = <<>> THEN str
                                   ELSE bindings \o <<":">> \o str)
              /\ benvCalls' = Append(benvCalls, b)
    /\ UNCHANGED <<benvPc, benvParsed>>

\* NewMinijail: the additional bindings from the environment variable.
ParseBindingsEnv ==
    /\ BenvFrame
    /\ benvPc = "adding"
    /\ benvParsed' =
          ParseBindings(Split(Getenv(benvEnv, BindingsEnvVarName), ":"))
    /\ benvPc' = "parsed"
    /\ UNCHANGED <<benvEnv, benvCalls>>

BenvNext ==
    \/ AddMinijailBindingToEnv
    \/ ParseBindingsEnv

-----------------------------------------------------------------------------
(***************************************************************************)
(* runOptions.validate, called last by PreRunE of the run command          *)
(***************************************************************************)

\* Largest absolute value of --timeout, in halves of a second.
MaxTimeout == 3

\* time.Second, in halves of a second.
Second == 2

Timeouts == (0 - MaxTimeout)..MaxTimeout

\* c.opts when validate is called; seedCorpusOk and dictionary stand for
\* what ValidateSeedCorpusDirs and os.Stat find in the file system.
RunOptions ==
    [SeedCorpusOk : BOOLEAN,
     Dictionary : {"", "dict", "missing"},
     BuildSystem : CmdBuildSystems \cup {""},
     BuildCommand : {"", "make"},
     Timeout : Timeouts]

\* opts.Timeout != 0 && opts.Timeout < time.Second
TimeoutTooShortIfPositive(timeout) == timeout > 0 /\ timeout < Second

TimeoutTooShort(timeout) == timeout # 0 /\ timeout < Second

ValIdle ==
    /\ valPc = "idle"
    /\ valOpts = [SeedCorpusOk |-> TRUE, Dictionary |-> "", BuildSystem |-> "",
                  BuildCommand |-> "", Timeout |-> 0]
    /\ valSteps = <<>>
    /\ valErr = "nil"
    /\ valRan = FALSE

ValInit ==
    /\ valPc = "seedCorpus"
    /\ valOpts \in RunOptions
    /\ valSteps = <<>>
    /\ valErr = "nil"
    /\ valRan = FALSE

\* One check of validate: it returns err or goes on with the next check.
ValReturn(check, err, next) ==
    /\ valSteps' = Append(valSteps, check)
    /\ IF err = "nil"
       THEN valPc' = next /\ UNCHANGED valErr
       ELSE valPc' = "returned" /\ valErr' = err

\* opts.SeedCorpusDirs, err = cmdutils.ValidateSeedCorpusDirs(...)
ValidateSeedCorpusDirs ==
    /\ ValFrame
    /\ valPc = "seedCorpus"
    /\ ValReturn("seedCorpus",
                 IF valOpts.SeedCorpusOk THEN "nil" ELSE "ErrSilent",
                 "dictionary")
    /\ UNCHANGED <<valOpts, valRan>>

\* os.Stat(opts.Dictionary) when a dictionary is given
StatDictionary ==
    /\ ValFrame
    /\ valPc = "dictionary"
    /\ ValReturn("dictionary",
                 IF valOpts.Dictionary = "missing" THEN "ErrSilent" ELSE "nil",
                 "buildSystem")
    /\ UNCHANGED <<valOpts, valRan>>

\* config.DetermineBuildSystem for an empty build system,
\* config.ValidateBuildSystem otherwise
CheckBuildSystem ==
    /\ ValFrame
    /\ valPc = "buildSystem"
    /\ IF valOpts.BuildSystem = ""
       THEN \/ /\ ValReturn("buildSystem", "BuildSystemError", "buildCommand")
               /\ UNCHANGED valOpts
            \/ /\ \E system \in BuildSystems :
                      valOpts' = [valOpts EXCEPT !.BuildSystem = system]
               /\ ValReturn("buildSystem", "nil", "buildCommand")
       ELSE /\ ValReturn("buildSystem",
                         IF valOpts.BuildSystem \in BuildSystems THEN "nil"
                         ELSE "BuildSystemError",
                         "buildCommand")
            /\ UNCHANGED valOpts
    /\ UNCHANGED valRan

\* build system "other" needs a build command
CheckBuildCommand ==
    /\ ValFrame
    /\ valPc = "buildCommand"
    /\ ValReturn("buildCommand",
                 IF valOpts.BuildSystem = "other" /\ valOpts.BuildCommand = ""
                 THEN "IncorrectUsageError" ELSE "nil",
                 "timeout")
    /\ UNCHANGED <<valOpts, valRan>>

\* the timeout check and return nil
CheckTimeout ==
    /\ ValFrame
    /\ valPc = "timeout"
    /\ ValReturn("timeout",
                 IF TimeoutTooShort(valOpts.Timeout) THEN "IncorrectUsageError"
                 ELSE "nil",
                 "returned")
    /\ UNCHANGED <<valOpts, valRan>>

\* RunE: cmd.run() builds and runs the fuzz test; the command calls it only
\* when PreRunE, which returns what validate returns, returned nil.
RunE ==
    /\ ValFrame
    /\ valPc = "returned"
    /\ valErr = "nil"
    /\ valRan' = TRUE
    /\ valPc' = "ran"
    /\ UNCHANGED <<valOpts, valSteps, valErr>>

ValNext ==
    \/ ValidateSeedCorpusDirs
    \/ StatDictionary
    \/ CheckBuildSystem
    \/ CheckBuildCommand
    \/ CheckTimeout
    \/ RunE

-----------------------------------------------------------------------------
(***************************************************************************)
(* Specifications                                                          *)
(***************************************************************************)

InitExec ==
    ExecInit /\ SanIdle /\ BindIdle /\ CorpusIdle /\ RfIdle /\ ChanIdle /\
    CfgIdle /\ BuildIdle /\ MjIdle /\ SenvIdle /\ BundleIdle /\ IoIdle /\
    PwIdle /\ CmdIdle /\ BenvIdle /\ ValIdle

SpecExec == InitExec /\ [][ExecNext]_vars

InitSan ==
    SanInit /\ ExecIdle /\ BindIdle /\ CorpusIdle /\ RfIdle /\ ChanIdle /\
    CfgIdle /\ BuildIdle /\ MjIdle /\ SenvIdle /\ BundleIdle /\ IoIdle /\
    PwIdle /\ CmdIdle /\ BenvIdle /\ ValIdle

SpecSan == InitSan /\ [][SanNext]_vars

InitBinding ==
    BindInit /\ ExecIdle /\ SanIdle /\ CorpusIdle /\ RfIdle /\ ChanIdle /\
    CfgIdle /\ BuildIdle /\ MjIdle /\ SenvIdle /\ BundleIdle /\ IoIdle /\
    PwIdle /\ CmdIdle /\ BenvIdle /\ ValIdle

SpecBinding == InitBinding /\ [][BindNext]_vars

InitCorpus ==
    CorpusInit /\ ExecIdle /\ SanIdle /\ BindIdle /\ RfIdle /\ ChanIdle /\
    CfgIdle /\ BuildIdle /\ MjIdle /\ SenvIdle /\ BundleIdle /\ IoIdle /\
    PwIdle /\ CmdIdle /\ BenvIdle /\ ValIdle

SpecCorpus == InitCorpus /\ [][CorpusNext]_vars

InitRunFuzzTest ==
    RfInit /\ ExecIdle /\ SanIdle /\ BindIdle /\ CorpusIdle /\ ChanIdle /\
    CfgIdle /\ BuildIdle /\ MjIdle /\ SenvIdle /\ BundleIdle /\ IoIdle /\
    PwIdle /\ CmdIdle /\ BenvIdle /\ ValIdle

SpecRunFuzzTest == InitRunFuzzTest /\ [][RfNext]_vars

InitReportChannel ==
    ChanInit /\ ExecIdle /\ SanIdle /\ BindIdle /\ CorpusIdle /\ RfIdle /\
    CfgIdle /\ BuildIdle /\ MjIdle /\ SenvIdle /\ BundleIdle /\ IoIdle /\
    PwIdle /\ CmdIdle /\ BenvIdle /\ ValIdle

SpecReportChannel == InitReportChannel /\ [][ChanNext]_vars

InitConfigure ==
    CfgInit /\ ExecIdle /\ SanIdle /\ BindIdle /\ CorpusIdle /\ RfIdle /\
    ChanIdle /\ BuildIdle /\ MjIdle /\ SenvIdle /\ BundleIdle /\ IoIdle /\
    PwIdle /\ CmdIdle /\ BenvIdle /\ ValIdle

SpecConfigure == InitConfigure /\ [][CfgNext]_vars

InitBuild ==
    BuildInit /\ ExecIdle /\ SanIdle /\ BindIdle /\ CorpusIdle /\ RfIdle /\
    ChanIdle /\ CfgIdle /\ MjIdle /\ SenvIdle /\ BundleIdle /\ IoIdle /\
    PwIdle /\ CmdIdle /\ BenvIdle /\ ValIdle

SpecBuild == InitBuild /\ [][BuildNext]_vars

InitMinijail ==
    MjInit /\ ExecIdle /\ SanIdle /\ BindIdle /\ CorpusIdle /\ RfIdle /\
    ChanIdle /\ CfgIdle /\ BuildIdle /\ SenvIdle /\ BundleIdle /\ IoIdle /\
    PwIdle /\ CmdIdle /\ BenvIdle /\ ValIdle

SpecMinijail == InitMinijail /\ [][MjNext]_vars

InitSanitizerEnv ==
    SenvInit /\ ExecIdle /\ SanIdle /\ BindIdle /\ CorpusIdle /\ RfIdle /\
    ChanIdle /\ CfgIdle /\ BuildIdle /\ MjIdle /\ BundleIdle /\ IoIdle /\
    PwIdle /\ CmdIdle /\ BenvIdle /\ ValIdle

SpecSanitizerEnv == InitSanitizerEnv /\ [][SenvNext]_vars

InitBundle ==
    BundleInit /\ ExecIdle /\ SanIdle /\ BindIdle /\ CorpusIdle /\ RfIdle /\
    ChanIdle /\ CfgIdle /\ BuildIdle /\ MjIdle /\ SenvIdle /\ IoIdle /\
    PwIdle /\ CmdIdle /\ BenvIdle /\ ValIdle

SpecBundle == InitBundle /\ [][BundleNext]_vars

InitToolOutput ==
    IoInit /\ ExecIdle /\ SanIdle /\ BindIdle /\ CorpusIdle /\ RfIdle /\
    ChanIdle /\ CfgIdle /\ BuildIdle /\ MjIdle /\ SenvIdle /\ BundleIdle /\
    PwIdle /\ CmdIdle /\ BenvIdle /\ ValIdle

SpecToolOutput == InitToolOutput /\ [][IoNext]_vars

InitProcessWrapper ==
    PwInit /\ ExecIdle /\ SanIdle /\ BindIdle /\ CorpusIdle /\ RfIdle /\
    ChanIdle /\ CfgIdle /\ BuildIdle /\ MjIdle /\ SenvIdle /\ BundleIdle /\
    IoIdle /\ CmdIdle /\ BenvIdle /\ ValIdle

SpecProcessWrapper == InitProcessWrapper /\ [][PwNext]_vars

InitRunCmd ==
    CmdInit /\ ExecIdle /\ SanIdle /\ BindIdle /\ CorpusIdle /\ RfIdle /\
    ChanIdle /\ CfgIdle /\ BuildIdle /\ MjIdle /\ SenvIdle /\ BundleIdle /\
    IoIdle /\ PwIdle /\ BenvIdle /\ ValIdle

SpecRunCmd == InitRunCmd /\ [][CmdNext]_vars

InitBindingsEnv ==
    BenvInit /\ ExecIdle /\ SanIdle /\ BindIdle /\ CorpusIdle /\ RfIdle /\
    ChanIdle /\ CfgIdle /\ BuildIdle /\ MjIdle /\ SenvIdle /\ BundleIdle /\
    IoIdle /\ PwIdle /\ CmdIdle /\ ValIdle

SpecBindingsEnv == InitBindingsEnv /\ [][BenvNext]_vars

InitValidate ==
    ValInit /\ ExecIdle /\ SanIdle /\ BindIdle /\ CorpusIdle /\ RfIdle /\
    ChanIdle /\ CfgIdle /\ BuildIdle /\ MjIdle /\ SenvIdle /\ BundleIdle /\
    IoIdle /\ PwIdle /\ CmdIdle /\ BenvIdle

SpecValidate == InitValidate /\ [][ValNext]_vars

-----------------------------------------------------------------------------
(***************************************************************************)
(* Claims                                                                  *)
(***************************************************************************)

\* C1: if a termination signal is delivered to the process before runner.Run
\* returns, executeRunner returns the (silent-wrapped) SignalError of that
\* signal, never the runner's error and never nil.
C1_SignalBeforeRunEndIsReturned ==
    (mainPc = "returned" /\ sigBeforeRunEnd # "none")
        => execResult = WrapSilentError(NewSignalError(sigBeforeRunEnd))

\* C2: in the result of SetSanitizerOptions every key of the overrides appears
\* with the override's value, every other key set in the existing string
\* keeps its existing value, every key only the defaults have appears with
\* the default's value, and no key appears more than once.
C2_MergeResult ==
    sanPc = "done" =>
        LET res == OptionsOf(sanResult)
            old == OptionsOf(sanExisting)
        IN  /\ \A i \in 1..Len(sanOverrides) :
                  KeyValue(sanOverrides[i][1], sanOverrides[i][2]) \in Range(res)
            /\ \A i \in 1..Len(old) :
                  OptionKey(old[i]) \notin MapKeys(sanOverrides)
                      => old[i] \in Range(res)
            /\ \A i \in 1..Len(sanDefaults) :
                  (/\ sanDefaults[i][1] \notin MapKeys(sanOverrides)
                   /\ \A j \in 1..Len(old) : OptionKey(old[j]) # sanDefaults[i][1])
                      => KeyValue(sanDefaults[i][1], sanDefaults[i][2]) \in Range(res)
            /\ \A i, j \in 1..Len(res) :
                  i # j => OptionKey(res[i]) # OptionKey(res[j])

\* C3: for every Binding B, BindingFromString(B.String()) succeeds and
\* returns B's source, B's target (the source when B's target was empty) and
\* B's writable flag.
C3_BindingRoundTrip ==
    bindPc = "parsed" =>
        /\ ~bindErr
        /\ bindParsed = [Source |-> bindInput.Source,
                         Target |-> TargetOrSource(bindInput),
                         Writable |-> bindInput.Writable]

\* C4: countCorpusEntries returns the number of non-empty files found
\* recursively under the listed directories that exist; a listed directory
\* that does not exist contributes 0 and changes nothing else.
C4_CountIsSumOverExistingDirs ==
    (/\ corpusPc = "returned"
     /\ \A i \in 1..Len(corpusDirs) : corpusFs[corpusDirs[i]].kind # "Unreadable")
        => corpusResult = [count |-> NonEmptyFilesUnder(corpusFs, corpusDirs),
                           err |-> FALSE]

\* C5: the read-only bindings runFuzzTest hands to the runner contain
\* BuildResult.BuildDir, and for Bazel also the directory reported by
\* "bazel info install_base".
C5_ReadOnlyBindingsHandedToRunner ==
    rfRunner # "none" =>
        /\ rfBuildResult.BuildDir \in Range(runnerOpts.ReadOnlyBindings)
        /\ rfOpts.BuildSystem = BuildSystemBazel
              => installBase \in Range(runnerOpts.ReadOnlyBindings)

DepLinePath(line) == SubSeq(line, 4, Len(line))

\* The canonical paths of the RESOLVED lines of an install output, in order.
RECURSIVE ResolvedPathsOf(_)
ResolvedPathsOf(lines) ==
    IF lines = <<>> THEN <<>>
    ELSE IF HasPrefix(Head(lines), <<"-- CIFUZZ ", "RESOLVED", " ">>)
    THEN <<CanonicalPath(DepLinePath(Head(lines))).path>>
         \o ResolvedPathsOf(Tail(lines))
    ELSE ResolvedPathsOf(Tail(lines))

\* Every line of the install output is other CMake output or a dependency
\* line with one of the three statuses, and the RESOLVED files exist.
OnlyDepLines(lines) ==
    \A i \in 1..Len(lines) :
        \/ ~HasPrefix(lines[i], <<"-- CIFUZZ ">>)
        \/ \E st \in {"UNRESOLVED", "CONFLICTING"} :
                HasPrefix(lines[i], <<"-- CIFUZZ ", st, " ">>)
        \/ /\ HasPrefix(lines[i], <<"-- CIFUZZ ", "RESOLVED", " ">>)
           /\ PathExists(DepLinePath(lines[i]))

\* C7: when "cmake --install" succeeded and printed only other output and
\* RESOLVED, UNRESOLVED and CONFLICTING lines, getRuntimeDeps returns no
\* error and exactly the paths of the RESOLVED lines, in output order;
\* UNRESOLVED and CONFLICTING lines, also those naming files that do not
\* exist, only produce a warning.
C7_UnresolvedDepsOnlyWarn ==
    (depsRet.err \notin {"not called", "ErrSilent"} /\ OnlyDepLines(installOut)) =>
        /\ depsRet.err = "nil"
        /\ depsRet.resolvedDeps = ResolvedPathsOf(installOut)


\* C8: the build directory encodes every cache variable: two Configure
\* calls for one project that pass different cache arguments to cmake run
\* it in different build directories.
C8_BuildDirEncodesCacheArgs ==
    \A r1, r2 \in cmakeRuns : r1.cache # r2.cache => r1.dir # r2.dir

\* The path fields of a build result.
ResultPaths(r) ==
    {r.BuildDir, r.ProjectDir, r.GeneratedCorpus, r.SeedCorpus}
    \cup (IF r.Executable = <<>> THEN {} ELSE {r.Executable})
    \cup Range(r.RuntimeDeps)

\* C9: every path field of every build result a CMake or Maven Build
\* returns is canonical: absolute and free of symbolic links.
C9_ResultPathsCanonical ==
    (buildPc = "done" /\ buildErr = "nil") =>
        \A r \in results : \A path \in ResultPaths(r) : IsCanonical(path)

\* The list without the later occurrences of its elements.
RECURSIVE Dedup(_)
Dedup(list) ==
    IF list = <<>> THEN <<>>
    ELSE IF \E i \in 1..(Len(list) - 1) : list[i] = Last(list)
    THEN Dedup(Front(list))
    ELSE Append(Dedup(Front(list)), Last(list))

\* The dependencies the last step of Build found, as found.
FoundDeps == IF adapter = "maven" THEN deps ELSE depsRet.resolvedDeps

\* C10: the RuntimeDeps of every build result a CMake or Maven Build
\* returns name no path twice, and they are the dependencies found, in the
\* order they were found in, each kept at its first occurrence.
C10_RuntimeDepsDeduplicated ==
    (buildPc = "done" /\ buildErr = "nil") =>
        \A r \in results :
            /\ \A i, j \in 1..Len(r.RuntimeDeps) :
                    r.RuntimeDeps[i] = r.RuntimeDeps[j] => i = j
            /\ (r.Name = Last(fuzzTests) /\ (adapter = "cmake" => bld.FindRuntimeDeps))
                    => r.RuntimeDeps = Dedup(FoundDeps)

\* The bind-mount lines of a config file.
BindLinesOf(content) ==
    SelectSeq(content, LAMBDA line : line # <<>> /\ line[1] = "bind-mount=")

\* The bind-mount line of a binding with the given source and writability.
BindLineFor(source, writable) ==
    <<"bind-mount=">> \o
    BindingString([Source |-> source, Target |-> source, Writable |-> writable])

\* The subdirectories of /tmp NewMinijail can look at, its own chroot excluded.
VisibleTmpDirs ==
    SelectSeq(ReadDirTmp(hostTmp),
              LAMBDA name : /\ name # chrootDir
                            /\ \/ name \in Range(ChrootNames)
                               \/ TmpEntryOf(name).isDir /\ TmpEntryOf(name).infoOk)

\* The bind-mount lines in the order of the claim, for the sources that exist.
ExpectedBindLines ==
    BindMountLines(
        [i \in 1..Len(VisibleTmpDirs) |->
            [Source |-> TmpPath(VisibleTmpDirs[i]), Target |-> <<>>,
             Writable |-> ReadOnly]]
        \o mjOpts.Bindings \o defaultBindings
        \o << [Source |-> Cwd, Target |-> <<>>, Writable |-> ReadWrite],
              [Source |-> mjPath, Target |-> <<>>, Writable |-> ReadOnly],
              [Source |-> ProcessWrapperPath, Target |-> <<>>,
               Writable |-> ReadOnly] >>,
        hostTmp)

\* C11: the bind-mount entries NewMinijail writes to the config file are, in
\* this order, the ones for the subdirectories of /tmp, the caller's
\* bindings in the caller's order, /dev/null and /dev/urandom read-write,
\* the working directory read-write, the executable and the process wrapper
\* (stated for a construction without an output directory).
C11_BindMountOrder ==
    (mjPc = "live" /\ mjOpts.OutputDir = <<>>) =>
        BindLinesOf(configFile) = ExpectedBindLines

\* C12: for every accessible subdirectory of /tmp other than the chroot
\* directory the config file holds a read-only bind-mount of /tmp/<name>;
\* no top-level file of /tmp and not the chroot directory is bound.
C12_TmpSubdirsBound ==
    mjPc = "live" =>
        /\ \A i \in 1..Len(VisibleTmpDirs) :
                BindLineFor(TmpPath(VisibleTmpDirs[i]), ReadOnly)
                    \in Range(BindLinesOf(configFile))
        /\ \A name \in hostTmp :
                (name = chrootDir \/ ~(name \in Range(ChrootNames)
                                       \/ TmpEntryOf(name).isDir)) =>
                    \A w \in {ReadOnly, ReadWrite} :
                        BindLineFor(TmpPath(name), w)
                            \notin Range(BindLinesOf(configFile))

\* C13: when the loop over the bindings has run to its end, it has appended
\* the lines of exactly the bindings whose source exists, in their order,
\* has created no destination for a binding whose source does not exist,
\* and has set no error.
C13_MissingSourceSkipped ==
    [][(mjPc = "addBindings" /\ mjPc' = "writeConfig") =>
        /\ minijailConfigLines' = minijailConfigLines \o
                BindMountLines(
                    SelectSeq(mjBindings, LAMBDA b : Exists(b.Source, hostTmp)),
                    hostTmp)
        /\ Len(minijailConfigLines') - Len(minijailConfigLines) =
                Cardinality({i \in 1..Len(mjBindings) :
                                Exists(mjBindings[i].Source, hostTmp)})
        /\ \A i \in 1..Len(mjBindings) :
                ~Exists(mjBindings[i].Source, hostTmp) =>
                    \A d \in chrootFs' \ chrootFs :
                        d.path # WithTarget(mjBindings[i]).Target
        /\ mjErr' = "nil"]_vars

\* A construction whose loop has run to its end over bindings of which one
\* has no source and another one has.
C13_Witness ==
    /\ mjPc = "writeConfig"
    /\ \E i, j \in 1..Len(mjBindings) :
            /\ i < j
            /\ ~Exists(mjBindings[i].Source, hostTmp)
            /\ Exists(mjBindings[j].Source, hostTmp)
            /\ mjBindings[i] \in Range(mjOpts.Bindings)

\* C14: no chroot directory is left on the host once NewMinijail has
\* returned an error or Cleanup has run.
C14_ChrootRemoved ==
    mjPc = "start" => hostTmp \cap Range(ChrootNames) = {}

\* The options of an option string that set the given key.
OptionsFor(str, key) ==
    SelectSeq(OptionsOf(str), LAMBDA o : OptionKey(o) = <<key>>)

\* The option string sets the key to the value and to nothing else.
SetsOnly(str, key, value) == OptionsFor(str, key) = <<KeyValue(<<key>>, value)>>

\* A default is added only when the user had not set the key.
DefaultAdded(name, key, value) ==
    IF OptionsFor(userEnv[name], key) = <<>>
    THEN SetsOnly(senvEnv[name], key, value)
    ELSE OptionsFor(senvEnv[name], key) = OptionsFor(userEnv[name], key)

\* C15: after SetCommonASANOptions and SetCommonUBSANOptions both
\* ASAN_OPTIONS and UBSAN_OPTIONS set exitcode to 78 and log_path to stderr
\* and to nothing else, whatever the user had set for these keys; color and,
\* for UBSan, print_stacktrace=1 are added only when the user had not set
\* the key.
C15_MandatorySanitizerOptions ==
    senvPc = "done" =>
        \A name \in {"ASAN_OPTIONS", "UBSAN_OPTIONS"} :
            /\ SetsOnly(senvEnv[name], "exitcode", SanitizerErrorExitCode)
            /\ SetsOnly(senvEnv[name], "log_path", <<"stderr">>)
            /\ DefaultAdded(name, "color", sanitizerOptionsColorValue(isTerminal))
            /\ name = "UBSAN_OPTIONS" =>
                    DefaultAdded(name, "print_stacktrace", <<"1">>)

-----------------------------------------------------------------------------
\* The entries of the env list the --env flags ask for, in flag order.
FlagsKept ==
    SelectSeq(envFlags,
              LAMBDA f : Index(f, "=") # 0 \/ callerEnv[f[1]].set)

EnvAskedFor ==
    [k \in 1..Len(FlagsKept) |->
        IF Index(FlagsKept[k], "=") # 0 THEN FlagsKept[k]
        ELSE <<FlagsKept[k][1], "=">> \o callerEnv[FlagsKept[k][1]].val]

\* C16: the env list of a fuzzer holds, in flag order, every KEY=VAL flag
\* literally and every bare KEY flag as KEY=<value in the caller's
\* environment> when the caller has it set and not at all otherwise;
\* NO_CIFUZZ=1 follows as the last entry for a libFuzzer fuzzer and is not
\* added for a JVM fuzzer.
C16_EnvFromFlags ==
    bundlePc = "done" =>
        \A i \in 1..Len(fuzzers) :
            IF fuzzers[i].Engine = "LIBFUZZER"
            THEN fuzzers[i].Env = EnvAskedFor \o <<<<"NO_CIFUZZ", "=", "1">>>>
            ELSE fuzzers[i].Env = EnvAskedFor

C16_Witness ==
    /\ bundlePc = "done"
    /\ envFlags = <<<<"FOO", "=", "foo">>, <<"BAR">>, <<"NO_SUCH_VARIABLE">>>>
    /\ callerEnv["BAR"].set
    /\ ~callerEnv["NO_SUCH_VARIABLE"].set
    /\ fuzzers[1].Engine = "LIBFUZZER"
    /\ fuzzers[1].Env = <<<<"FOO", "=", "foo">>, <<"BAR", "=", "bar">>,
                          <<"NO_CIFUZZ", "=", "1">>>>

\* C17: the runtime paths of every JVM fuzzer are <name>/manifest.jar and
\* then, for each runtime dependency of its build result in order, the path
\* under runtime_deps/ at which the archive holds that dependency; so it is
\* for each fuzzer of a bundle of several.
C17_RuntimePathsOrder ==
    bundlePc = "done" =>
        \A i \in 1..Len(fuzzers) :
            fuzzers[i].Engine = "JAVA_LIBFUZZER" =>
                LET rp == fuzzers[i].RuntimePaths
                    runtimeDeps == buildResults[i]
                IN  /\ Len(rp) = 1 + Len(runtimeDeps)
                    /\ rp[1] = <<fuzzers[i].Name, "/", "manifest.jar">>
                    /\ \A k \in 1..Len(runtimeDeps) :
                        /\ HasPrefix(rp[k + 1], <<"runtime_deps", "/">>)
                        /\ <<rp[k + 1], runtimeDeps[k]>> \in fileMap

C17_Witness ==
    /\ bundlePc = "done"
    /\ Len(fuzzers) = 2
    /\ \A i \in 1..2 : fuzzers[i].Engine = "JAVA_LIBFUZZER"
    /\ Len(buildResults[1]) = 2
    /\ buildResults[1][1] # buildResults[1][2]
    /\ buildResults[2] = <<buildResults[1][2], buildResults[1][1]>>

\* The entries directly under runtime_deps/: name and content.
RuntimeDepEntries ==
    {[name |-> e[1][3], content |-> ContentOf(e[2])] :
        e \in {x \in fileMap : Len(x[1]) = 3 /\ x[1][1] = "runtime_deps"}}

\* C18: a runtime dependency that several fuzzers of a bundle refer to is
\* stored once under runtime_deps/, the name of every entry there is the
\* hash of its content, and no two entries there have the same content.
C18_RuntimeDepsKeyedByHash ==
    bundlePc = "done" =>
        /\ \A e \in RuntimeDepEntries : e.name = HashOf(e.content)
        /\ \A e1, e2 \in RuntimeDepEntries :
                e1.content = e2.content => e1 = e2

-----------------------------------------------------------------------------
\* The bytes of a writer that the command wrote to the stream.
BytesOf(writer, name, stream) ==
    SelectSeq(writer, LAMBDA byte : byte[1] = name /\ byte[2] = stream)

\* C19: of every build tool command the CMake and the Maven adapter have
\* run, the Stderr writer of the adapter holds the stderr of the tool byte
\* for byte, and the Stdout writer of the adapter holds no byte of the
\* stdout of the tool.
C19_ToolOutputRouting ==
    \A i \in 1..Len(toolRuns) :
        /\ BytesOf(bStderr, toolRuns[i].cmd, "stderr") = toolRuns[i].stderr
        /\ BytesOf(bStdout, toolRuns[i].cmd, "stdout") = <<>>

-----------------------------------------------------------------------------
\* C20: when the listener goroutine took a signal from the channel,
\* executeRunner returns the SignalError of that signal wrapped as silent,
\* whichever goroutine returned first and whatever error runner.Run
\* returned.
C20_SignalErrorShadows ==
    (mainPc = "returned" /\ cleanupCalls > 0) =>
        /\ signalErr.sig \in Signals
        /\ execResult = [kind |-> "SignalError", sig |-> signalErr.sig,
                         silent |-> TRUE]

C20_Witness ==
    /\ mainPc = "returned"
    /\ cleanupCalls > 0
    /\ runResult.kind = "ExecError"
    /\ groupErr.kind = "ExecError"
    /\ execResult.kind = "SignalError"

-----------------------------------------------------------------------------
\* C21: in executeRunner, runner.Cleanup is called at most once and only
\* after a signal was taken from the channel; the runner context is
\* cancelled only after that Cleanup returned or runner.Run returned; and
\* executeRunner returns only after runner.Run and a started Cleanup have
\* both returned.
C21_CleanupOnceThenCancel ==
    /\ cleanupCalls <= 1
    /\ cleanupCalls = 1 => (delivered > 0 /\ signalErr.sig \in Signals)
    /\ (cleanupCalls = 0 /\ listenerPc = "done") => signalErr = NilErr
    /\ ctxDone => \/ runnerPc = "done"
                  \/ (cleanupCalls = 1 /\ listenerPc = "done")
    /\ mainPc = "returned" => (runnerPc = "done" /\ listenerPc = "done")

C21_Witness ==
    /\ mainPc = "returned"
    /\ delivered = MaxSignals
    /\ cleanupCalls = 1
    /\ sigs # <<>>

\* The goroutines of executeRunner are scheduled: a goroutine that can
\* return does so, and routines.Wait() returns when it can.  Nothing makes
\* runner.Run return or a signal arrive.
ExecFairness ==
    /\ WF_<<listenerPc, mainPc>>(ListenerCtxDone)
    /\ WF_<<listenerPc, mainPc>>(ListenerTakeSignal)
    /\ WF_<<listenerPc, mainPc>>(ListenerReturn)
    /\ WF_<<listenerPc, mainPc>>(MainReturn)

SpecExecLive == InitExec /\ [][ExecNext]_vars /\ ExecFairness

\* executeRunner returned what runner.Run returned, an ExecError wrapped as
\* silent, and the listener goroutine returned nil.
ReturnedRunResult ==
    IF mainPc = "returned" /\ listenerPc = "done" /\ cleanupCalls = 0
    THEN /\ groupErr = runResult
         /\ execResult = IF runResult.kind = "ExecError"
                         THEN [runResult EXCEPT !.silent = TRUE]
                         ELSE runResult
    ELSE FALSE

\* C22: when no signal arrives and runner.Run returns, executeRunner
\* returns: the listener goroutine is released by the cancelled context and
\* returns nil, and the result is that of runner.Run, an ExecError wrapped
\* as silent.
C22_ReturnsWithoutSignal ==
    /\ []((mainPc = "returned" /\ delivered = 0) => ReturnedRunResult)
    /\ (runnerPc = "done" /\ delivered = 0) ~> (delivered > 0 \/ ReturnedRunResult)

C22_Witness ==
    /\ delivered = 0
    /\ ReturnedRunResult
    /\ runResult.kind = "ExecError"
    /\ execResult.silent

-----------------------------------------------------------------------------
\* C23: for every command line of the sandbox protocol (process wrapper,
\* working directory, zero or more environment entries, "--", target and
\* its arguments) whose working directory exists, the process wrapper has
\* changed to the working directory when it is done and has executed the
\* target with the target and its arguments as argument vector, with and
\* without environment entries.
C23_WrapperExecutesTarget ==
    (pwPc \in {"target", "exited"} /\ pwLayout.cwd \in WrapperDirs) =>
        /\ pwPc = "target"
        /\ pwCwd = pwLayout.cwd
        /\ pwExec = [path |-> Head(pwLayout.args), argv |-> pwLayout.args]

-----------------------------------------------------------------------------
\* The steps of run that were executed, in order, and those that succeeded.
StepsDone == [i \in 1..Len(cmdSteps) |-> cmdSteps[i].step]

Succeeded(step) ==
    \E i \in 1..Len(cmdSteps) :
        cmdSteps[i].step = step /\ cmdSteps[i].outcome = "ok"

Executed(step) == \E i \in 1..Len(cmdSteps) : cmdSteps[i].step = step

\* s is made of elements of t in the order of t, each at most once.
RECURSIVE InOrderOf(_, _)
InOrderOf(s, t) ==
    IF s = <<>> THEN TRUE
    ELSE IF t = <<>> THEN FALSE
    ELSE IF Head(s) = Head(t) THEN InOrderOf(Tail(s), Tail(t))
    ELSE InOrderOf(s, Tail(t))

\* C24: run executes build, report handler creation, runner and final
\* metrics in this order; the runner starts only after the build succeeded
\* and the metrics are printed only after the runner returned without
\* error; a failed step is the last step and run returns its error; with
\* --build-only and a build that succeeded no report handler is created, no
\* runner started, no metrics printed, and run returns nil.
C24_RunStepOrder ==
    /\ InOrderOf(StepsDone,
                 <<"checkDependencies", "setupSync", "MkdirTemp",
                   "buildFuzzTest", "NewReportHandler", "runFuzzTest",
                   "printFinalMetrics">>)
    /\ Executed("NewReportHandler") => Succeeded("buildFuzzTest")
    /\ Executed("runFuzzTest") =>
            Succeeded("buildFuzzTest") /\ Succeeded("NewReportHandler")
    /\ Executed("printFinalMetrics") => Succeeded("runFuzzTest")
    /\ \A i \in 1..Len(cmdSteps) :
            cmdSteps[i].outcome # "ok" =>
                /\ i = Len(cmdSteps)
                /\ cmdPc = "returned"
                /\ cmdErr.step = cmdSteps[i].step
                /\ cmdErr.kind = cmdSteps[i].outcome
    /\ (cmdPc = "returned" /\ \A i \in 1..Len(cmdSteps) :
                                    cmdSteps[i].outcome = "ok") =>
            /\ cmdErr = CmdNil
            /\ IF cmdOpts.BuildOnly
               THEN Last(StepsDone) = "buildFuzzTest"
               ELSE Last(StepsDone) = "printFinalMetrics"

C24_Witness ==
    /\ cmdPc = "returned"
    /\ cmdOpts.BuildOnly
    /\ Succeeded("buildFuzzTest")
    /\ cmdErr = CmdNil

-----------------------------------------------------------------------------
\* C25: the config file of every NewMinijail call is the header, the fixed
\* lines and the bind-mount lines of the bindings of that call, with no line
\* of an earlier call; and the package-level list of fixed lines is never
\* changed.
C25_ConfigOfThisCallOnly ==
    /\ minijailConfigLines = InitialConfigLines
    /\ mjPc = "live" =>
            configFile = << <<"% minijail-config-file v0">> >>
                         \o InitialConfigLines
                         \o BindMountLines(mjBindings, hostTmp)

-----------------------------------------------------------------------------
\* The number of non-empty files under a set of directories that exist.
RECURSIVE NonEmptyFilesIn(_, _)
NonEmptyFilesIn(fs, dirSet) ==
    IF dirSet = {} THEN 0
    ELSE LET d == CHOOSE x \in dirSet : TRUE
         IN  WalkDirCount(fs[d]) + NonEmptyFilesIn(fs, dirSet \ {d})

\* C26: for the list printFinalMetrics hands to countCorpusEntries (the
\* user's seed corpus directories, the generated corpus, the default seed
\* corpus), all of them existing, the count is the number of non-empty
\* files in the union of the directories: a file is counted once also when
\* its directory is listed more than once.
C26_CorpusCountedAsUnion ==
    (/\ corpusPc = "returned"
     /\ Len(corpusDirs) >= 2
     /\ \A i \in 1..Len(corpusDirs) : corpusFs[corpusDirs[i]].kind = "Dir")
        => corpusResult = [count |-> NonEmptyFilesIn(corpusFs, Range(corpusDirs)),
                           err |-> FALSE]

-----------------------------------------------------------------------------
\* The entries of a classpath file, in file order.
ClasspathEntries(file) ==
    SelectNonEmpty(Split(TrimSpace(file), PathListSeparator))

\* C27: the RuntimeDeps of the result of Maven's Build are the entries of
\* the classpath file in file order, then the output directory, the test
\* output directory, the resource directories and the test resource
\* directories; Executable is empty; no entry of RuntimeDeps is the empty
\* string, also when the classpath file is empty.
C27_MavenRuntimeDeps ==
    (adapter = "maven" /\ buildPc = "done" /\ buildErr = "nil") =>
        \A r \in results :
            /\ r.Executable = <<>>
            /\ \A i \in 1..Len(r.RuntimeDeps) : r.RuntimeDeps[i] # <<>>
            /\ \E file \in ClasspathFiles(mvnBase),
                  project \in MavenProjects(mvnBase) :
                    r.RuntimeDeps = ClasspathEntries(file) \o LocalDeps(project)

\* The order of the tool steps of Maven's Build.
MavenStepOrder ==
    {<<"build", "external">>, <<"external", "local">>,
     <<"local", "buildDir">>, <<"buildDir", "done">>}

\* C28: Maven's Build runs test-compile, the classpath query, the project
\* model query and the build directory query in this order; a step that
\* fails ends Build with an error and without a result, and a result is
\* returned only by the last step, after all four succeeded.
C28_MavenStepsInOrder ==
    [][(adapter = "maven" /\ buildPc' # buildPc) =>
            /\ IF buildErr' = "nil"
               THEN <<buildPc, buildPc'>> \in MavenStepOrder
               ELSE buildPc' = "done" /\ results' = {}
            /\ results' # {} => (buildPc = "buildDir" /\ buildErr' = "nil")]_vars

C28_Witness ==
    /\ adapter = "maven"
    /\ buildPc = "done"
    /\ buildErr # "nil"
    /\ deps # <<>>
    /\ results = {}

-----------------------------------------------------------------------------
\* C29: starting with CIFUZZ_MINIJAIL_BINDINGS unset, after any sequence of
\* AddMinijailBindingToEnv calls with b1..bn, splitting the value of the
\* variable on ':' and parsing each element with BindingFromString succeeds
\* and yields b1..bn in call order (an empty target read as the source), and
\* no other variable of the environment has changed.
C29_EnvBindingsRoundTrip ==
    benvPc = "parsed" =>
        /\ benvParsed.ok
        /\ benvParsed.bindings =
              [i \in 1..Len(benvCalls) |->
                  [benvCalls[i] EXCEPT !.Target = TargetOrSource(benvCalls[i])]]
        /\ \A name \in DOMAIN benvEnv :
              name # BindingsEnvVarName => benvEnv[name] = InitialEnv[name]

-----------------------------------------------------------------------------
\* C30: the timeout check of runOptions.validate returns an incorrect-usage
\* error exactly for the timeouts that are not zero and shorter than one
\* second, negative ones included; a timeout of zero and every timeout of
\* at least one second pass it; a run with a rejected timeout never reaches
\* the build or the runner.
C30_TimeoutCheck ==
    LET rejected == valOpts.Timeout # 0 /\ valOpts.Timeout < Second IN
    /\ (valPc \in {"returned", "ran"} /\ Last(valSteps) = "timeout") =>
          valErr = (IF rejected THEN "IncorrectUsageError" ELSE "nil")
    /\ valRan => ~rejected

C30_Witness ==
    /\ valPc = "returned"
    /\ Last(valSteps) = "timeout"
    /\ valOpts.Timeout < 0
    /\ valErr = "IncorrectUsageError"
    /\ ~valRan

=============================================================================
